---------------------------- MODULE Spec2Model ----------------------------
(***************************************************************************)
(* Quick-fix application engine of the SonarLint MCP server.               *)
(*                                                                         *)
(* The module models the two apply tools (apply_quick_fix and              *)
(* apply_all_quick_fixes), the text-edit applier they share, the cache     *)
(* invalidation notifier and the scope resolver.                           *)
(*                                                                         *)
(* Text is modelled character by character: a string is a sequence of      *)
(* one-character strings, a file is such a sequence in which NL separates  *)
(* the lines, and the line buffer of the applier is a sequence of strings. *)
(* JavaScript's  a || b  is modelled by Or: 0 and a missing number (NULL)  *)
(* both select b.                                                          *)
(***************************************************************************)
EXTENDS Integers, Sequences, FiniteSets, TLC

(***************************************************************************)
(* Bounds of the model.                                                    *)
(***************************************************************************)
FileLines == 3
LineWidth == 2

(***************************************************************************)
(* Values.                                                                 *)
(***************************************************************************)
NULL == -1
NL == "\n"
Glyphs == <<"a", "b", "c", "d", "e", "f", "g", "h", "i", "j", "k", "l",
            "m", "n", "o", "p", "q", "r", "s", "t", "u", "v", "w", "z">>

Glyph(i, j) == Glyphs[(((i - 1) * 4 + (j - 1)) % Len(Glyphs)) + 1]

\* Line i of the generated files, cut to n characters.
LineOf(i, n) == [j \in 1..n |-> Glyph(i, j)]

Min(a, b) == IF a < b THEN a ELSE b
Max(a, b) == IF a > b THEN a ELSE b

(***************************************************************************)
(* JavaScript primitives used by the handlers.                             *)
(***************************************************************************)
\* a || b on numbers: undefined (NULL) and 0 are falsy.
Or(a, b) == IF a = NULL \/ a = 0 THEN b ELSE a

Clamp(n, len) == IF n < 0 THEN 0 ELSE IF n > len THEN len ELSE n

\* String.prototype.substring(a, b): both indices are clamped to 0..length
\* and swapped when a > b.
Substring(s, a, b) ==
  LET ca == Clamp(a, Len(s))
      cb == Clamp(b, Len(s))
  IN  SubSeq(s, Min(ca, cb) + 1, Max(ca, cb))

\* String.prototype.substring(a): to the end of the string.
SubstringFrom(s, a) == Substring(s, a, Len(s))

\* content.split('\n'): always at least one piece.
RECURSIVE SplitFrom(_, _, _)
SplitFrom(s, i, cur) ==
  IF i > Len(s) THEN <<cur>>
  ELSE IF s[i] = NL THEN <<cur>> \o SplitFrom(s, i + 1, <<>>)
  ELSE SplitFrom(s, i + 1, Append(cur, s[i]))

Split(s) == SplitFrom(s, 1, <<>>)

\* lines.join('\n')
RECURSIVE Join(_)
Join(lines) ==
  IF Len(lines) = 0 THEN <<>>
  ELSE IF Len(lines) = 1 THEN lines[1]
  ELSE lines[1] \o <<NL>> \o Join(Tail(lines))

\* Array.prototype.splice(start, deleteCount, item) for 0 <= start: the
\* delete count is clamped to 0..(length - start).
Splice(lines, start, deleteCount, item) ==
  LET s  == Min(start, Len(lines))
      dc == Clamp(deleteCount, Len(lines) - s)
  IN  SubSeq(lines, 1, s) \o <<item>> \o SubSeq(lines, s + dc + 1, Len(lines))

(***************************************************************************)
(* The applier: one TextEdit on the line buffer.                           *)
(* An edit is [startLine, startLineOffset, endLine, endLineOffset,         *)
(* newText]; a missing number is NULL.  The result is [ok, lines]; ok is   *)
(* FALSE when the code throws a TypeError (lines[i] is undefined); lines is *)
(* then the buffer as it was when the error was thrown.                    *)
(***************************************************************************)

EditStartLine(edit) == Or(edit.startLine, 1) - 1
EditStartCol(edit) == Or(edit.startLineOffset, 0)
EditEndLine(edit) == Or(edit.endLine, EditStartLine(edit) + 1) - 1

\* lines[i]?.length with a 0-based index
LengthAt(lines, i) == IF i >= 0 /\ i < Len(lines) THEN Len(lines[i + 1]) ELSE NULL

EditEndCol(lines, edit) ==
  Or(Or(edit.endLineOffset, LengthAt(lines, EditEndLine(edit))), 0)

Defined(lines, i) == i >= 0 /\ i < Len(lines)

\* An applier that splices whatever the edit: the target line and the one after it
\* give way to the new text.
ApplyEditSplicing(lines, edit) ==
  IF ~Defined(lines, EditStartLine(edit)) THEN [ok |-> FALSE, lines |-> lines]
  ELSE [ok |-> TRUE, lines |-> Splice(lines, EditStartLine(edit), 2, edit.newText)]

ApplyEdit(lines, edit) ==
  LET startLine == EditStartLine(edit)
      startCol  == EditStartCol(edit)
      endLine   == EditEndLine(edit)
      endCol    == EditEndCol(lines, edit)
  IN  IF startLine = endLine
      THEN IF ~Defined(lines, startLine) THEN [ok |-> FALSE, lines |-> lines]
           ELSE LET currentLine == lines[startLine + 1]
                IN  [ok |-> TRUE,
                     lines |-> [lines EXCEPT ![startLine + 1] =
                                  Substring(currentLine, 0, startCol) \o edit.newText
                                    \o SubstringFrom(currentLine, endCol)]]
      ELSE IF ~Defined(lines, startLine) \/ ~Defined(lines, endLine)
           THEN [ok |-> FALSE, lines |-> lines]
           ELSE LET firstLine == Substring(lines[startLine + 1], 0, startCol) \o edit.newText
                    lastLine  == SubstringFrom(lines[endLine + 1], endCol)
                IN  [ok |-> TRUE,
                     lines |-> Splice(lines, startLine, endLine - startLine + 1,
                                      firstLine \o lastLine)]

(***************************************************************************)
(* Raw Issues as the backend returns them.                                 *)
(*   issue    [ruleKey, textRangeStartLine, startLine, quickFixes,         *)
(*            severity]   (severity "" when the backend gave none)         *)
(*   quickFix [message, inputFileEdits, fileEdits]   (either list may be   *)
(*            absent: [present |-> FALSE, list |-> <<>>])                  *)
(*   fileEdit [hasTextEdits, textEdits]                                    *)
(* textRangeStartLine is NULL when textRange or its startLine is missing.  *)
(* A missing quickFixes list and an empty one take the same branch at      *)
(* every use, so both are the empty sequence.                              *)
(***************************************************************************)
\* issue.textRange?.startLine || issue.startLine || 0
IssueLine(issue) == Or(Or(issue.textRangeStartLine, issue.startLine), 0)

\* issue.quickFixes && issue.quickFixes.length > 0
AcceptsEveryIssue(issue) == TRUE
HasQuickFixes(issue) == Len(issue.quickFixes) > 0

\* rawIssues.filter(...)
FilterIssues(issues) == SelectSeq(issues, HasQuickFixes)

\* Array.prototype.sort with the comparator (a, b) => key(b) - key(a): a
\* stable descending sort.  Rank(keys, i) is the place of element i.
RankTiesReversed(keys, i) ==
  1 + Cardinality({ j \in 1..Len(keys) :
                      keys[j] > keys[i] \/ (keys[j] = keys[i] /\ j > i) })

Rank(keys, i) ==
  1 + Cardinality({ j \in 1..Len(keys) :
                      keys[j] > keys[i] \/ (keys[j] = keys[i] /\ j < i) })

RankAscending(keys, i) ==
  1 + Cardinality({ j \in 1..Len(keys) :
                      keys[j] < keys[i] \/ (keys[j] = keys[i] /\ j < i) })

SortDescending(seq, keys) ==
  [p \in 1..Len(seq) |-> seq[CHOOSE i \in 1..Len(seq) : Rank(keys, i) = p]]

SortAscending(seq, keys) ==
  [p \in 1..Len(seq) |-> seq[CHOOSE i \in 1..Len(seq) : RankAscending(keys, i) = p]]

\* [...issuesWithQuickFixes].sort((a, b) => bLine - aLine)
SortIssuesAscending(issues) ==
  SortAscending(issues, [i \in 1..Len(issues) |-> IssueLine(issues[i])])
SortIssues(issues) ==
  SortDescending(issues, [i \in 1..Len(issues) |-> IssueLine(issues[i])])

\* issue.quickFixes[0]
LastFix(issue) == issue.quickFixes[Len(issue.quickFixes)]
FirstFix(issue) == issue.quickFixes[1]

\* quickFix.message || 'Applied automated fix'
FixMessage(quickFix) ==
  IF quickFix.message = "" THEN "Applied automated fix" ELSE quickFix.message

\* quickFix.inputFileEdits || quickFix.fileEdits || []   (an empty array is truthy)
FileEditsOf(quickFix) ==
  IF quickFix.inputFileEdits.present THEN quickFix.inputFileEdits.list
  ELSE IF quickFix.fileEdits.present THEN quickFix.fileEdits.list
  ELSE <<>>

\* [...fileEdit.textEdits].sort((a, b) => bStart - aStart), keys range?.startLine || 0
SortEdits(edits) ==
  SortDescending(edits, [i \in 1..Len(edits) |-> Or(edits[i].startLine, 0)])

\* The edits of one Fix in the order the nested loops visit them.
RECURSIVE EditSequence(_)
EditSequence(fileEdits) ==
  IF Len(fileEdits) = 0 THEN <<>>
  ELSE (IF Head(fileEdits).hasTextEdits THEN SortEdits(Head(fileEdits).textEdits) ELSE <<>>)
         \o EditSequence(Tail(fileEdits))

\* for (const edit of sortedEdits) { ... }: stops at the first edit that throws,
\* leaving the buffer as the earlier edits made it.
RECURSIVE ApplyEdits(_, _)
ApplyEdits(lines, edits) ==
  IF Len(edits) = 0 THEN [ok |-> TRUE, lines |-> lines]
  ELSE LET r == ApplyEdit(lines, Head(edits))
       IN  IF r.ok THEN ApplyEdits(r.lines, Tail(edits)) ELSE r

\* One Fix on the content read from the file: split, edit, join.
ApplyFix(content, quickFix) ==
  LET r == ApplyEdits(Split(content), EditSequence(FileEditsOf(quickFix)))
  IN  [ok |-> r.ok, content |-> Join(r.lines)]

\* if (issuesWithQuickFixes.length === 0) return the "No quick fixes available" result
NeverEmpty(issues) == FALSE
PlanIsEmpty(issues) == Len(issues) = 0

\* The for loop: the catch block neither rethrows nor breaks, so the loop goes on
\* to the next Issue whatever the step did, and to the notifier after the last.
AfterStepAbortOnFailure(i, n, ok) == IF i >= n \/ ~ok THEN "notify" ELSE "loop"
AfterStep(i, n, ok) == IF i >= n THEN "notify" ELSE "loop"

\* The body of the try block for one Issue: the content the file holds afterwards
\* and whether the step succeeded.  io is what the file system does: "ok",
\* "readError" (readFileSync throws) or "writeError" (writeFileSync throws).
IssueStepRestoring(content, issue, io) ==
  IF io = "readError" THEN [ok |-> FALSE, content |-> <<>>, error |-> "read failed"]
  ELSE IF Len(issue.quickFixes) = 0
  THEN [ok |-> FALSE, content |-> <<>>, error |-> "TypeError"]
  ELSE LET r == ApplyFix(content, FirstFix(issue))
       IN  IF ~r.ok THEN [ok |-> FALSE, content |-> <<>>, error |-> "TypeError"]
           ELSE IF io = "writeError"
           THEN [ok |-> FALSE, content |-> <<>>, error |-> "write failed"]
           ELSE [ok |-> TRUE, content |-> r.content, error |-> ""]
IssueStepPersistPartial(content, issue, io) ==
  IF io = "readError" THEN [ok |-> FALSE, content |-> content, error |-> "read failed"]
  ELSE IF Len(issue.quickFixes) = 0
  THEN [ok |-> FALSE, content |-> content, error |-> "TypeError"]
  ELSE LET r == ApplyFix(content, FirstFix(issue))
       IN  IF ~r.ok THEN [ok |-> FALSE, content |-> r.content, error |-> "TypeError"]
           ELSE IF io = "writeError"
           THEN [ok |-> FALSE, content |-> content, error |-> "write failed"]
           ELSE [ok |-> TRUE, content |-> r.content, error |-> ""]
IssueStep(content, issue, io) ==
  IF io = "readError" THEN [ok |-> FALSE, content |-> content, error |-> "read failed"]
  ELSE IF Len(issue.quickFixes) = 0
  THEN [ok |-> FALSE, content |-> content, error |-> "TypeError"]
  ELSE LET r == ApplyFix(content, FirstFix(issue))
       IN  IF ~r.ok THEN [ok |-> FALSE, content |-> content, error |-> "TypeError"]
           ELSE IF io = "writeError"
           THEN [ok |-> FALSE, content |-> content, error |-> "write failed"]
           ELSE [ok |-> TRUE, content |-> r.content, error |-> ""]

(***************************************************************************)
(* Variables.                                                              *)
(***************************************************************************)
VARIABLES
  edPc, edLines, edEdit, edOut,   \* SpecEdit: the applier on one buffer and one edit
  fileExists,      \* existsSync(filePath)
  disk,            \* content of the target file
  sloopBridge,     \* state.ts sloopBridge: "none" or "connected"
  scopeMap,        \* state.ts scopeMap: <<project root, scope id>> in insertion order
  backendScopes,   \* scope ids registered with addConfigurationScope, in order
  backendIssues,   \* what the backend reports for backendContent
  backendContent,  \* the file content the backend's Issues were computed for
  pc,              \* position of the running tool call
  tool,            \* "apply_all" or "apply_one"
  argLine, argRule,\* arguments of apply_quick_fix
  rawIssues,       \* result of the first analysis
  sortedIssues,    \* the plan
  idx,             \* next plan entry of the apply loop
  appliedFixes, failedFixes,
  remainingIssues, \* result of the second analysis
  result,          \* what the call returns or throws
  argFiles,        \* filePaths of analyze_files
  filesByScope,    \* analyze_files: scope ids in the order the Map received them
  snapshot,        \* file content when the call started
  log,             \* what the call has done so far, in order
  lastCall,        \* the previous call when it was an apply_all call that found
                   \* nothing to fix: its result and the file content it left
  calls,           \* SpecPar: the tool calls in flight, one record per call
  turns,           \* SpecPar: what the calls have done, in the order it happened
  fnPc, fnIn, fnOut,\* a function of the program on one input: "input", then "applied"
  sessionResults,  \* state.ts sessionResults: <<filePath, result>> in insertion order
  batchResults     \* state.ts batchResults: <<batchId, result>> in insertion order

edVars == <<edPc, edLines, edEdit, edOut>>
parVars == <<calls, turns>>
fnVars == <<fnPc, fnIn, fnOut>>
resVars == <<sessionResults, batchResults>>
envVars == <<fileExists, disk, sloopBridge, scopeMap, backendScopes,
             backendIssues, backendContent>>
batchVars == <<argFiles, filesByScope>>
callVars == <<pc, tool, argLine, argRule, rawIssues, sortedIssues, idx,
              appliedFixes, failedFixes, remainingIssues, result, snapshot, log, batchVars>>

vars == <<edVars, parVars, fnVars, envVars, callVars, lastCall, resVars>>

(***************************************************************************)
(* SpecEdit: the applier as a pure function of a buffer and one edit.      *)
(***************************************************************************)
\* Buffers of 1..FileLines lines whose widths differ from line to line.
Buffers ==
  { [i \in 1..n |-> LineOf(i, (base + i) % (LineWidth + 1))] :
      n \in 1..FileLines, base \in 0..LineWidth }

Texts == { <<>>, <<"X">>, <<"X", "Y">> }

EditInputs ==
  [startLine : {NULL} \cup (1..(FileLines + 1)),
   startLineOffset : {NULL} \cup (0..LineWidth),
   endLine : {NULL} \cup (1..(FileLines + 1)),
   endLineOffset : {NULL} \cup (0..LineWidth),
   newText : Texts]

\* A function body whose statement is to be removed: columns 2 to 9 of line 2.
ReturnBuffer ==
  << <<"f", "(", ")", " ", "{">>, <<" ", " ", "r", "e", "t", "u", "r", "n", ";">>, <<"}">> >>
ReturnEdit ==
  [startLine |-> 2, startLineOffset |-> 2, endLine |-> 2, endLineOffset |-> 9,
   newText |-> <<>>]

EditInit ==
  /\ edPc = "input"
  /\ \/ edLines \in Buffers /\ edEdit \in EditInputs
     \/ edLines = ReturnBuffer /\ edEdit = ReturnEdit
  /\ edOut = [ok |-> FALSE, lines |-> <<>>]
  /\ fileExists = TRUE /\ disk = <<>> /\ sloopBridge = "none" /\ scopeMap = <<>>
  /\ backendScopes = <<>> /\ backendIssues = <<>> /\ backendContent = <<>>
  /\ pc = "idle" /\ tool = "none" /\ argLine = 0 /\ argRule = "none"
  /\ rawIssues = <<>> /\ sortedIssues = <<>> /\ idx = 0
  /\ appliedFixes = <<>> /\ failedFixes = <<>> /\ remainingIssues = <<>>
  /\ result = [kind |-> "none", isError |-> FALSE]
  /\ snapshot = <<>> /\ log = <<>>
  /\ argFiles = <<>> /\ filesByScope = <<>>
  /\ lastCall = [tool |-> "none", kind |-> "none", total |-> 0, content |-> <<>>]
  /\ sessionResults = <<>> /\ batchResults = <<>>
  /\ calls = <<>> /\ turns = <<>>
  /\ fnPc = "unused" /\ fnIn = <<>> /\ fnOut = <<>>

EditApply ==
  /\ edPc = "input"
  /\ edOut' = ApplyEdit(edLines, edEdit)
  /\ edPc' = "applied"
  /\ UNCHANGED <<edLines, edEdit, parVars, fnVars, envVars, callVars, lastCall, resVars>>

EditNext == EditApply

SpecEdit == EditInit /\ [][EditNext]_vars

(***************************************************************************)
(* Spec: tool calls against one target file.                               *)
(***************************************************************************)
ProjectRoot == "/proj"                 \* dirname(filePath)
\* createHash('md5').update(projectRoot).digest('hex').substring(0, 8) for the
\* project roots of the model: the first eight hex digits of each root's MD5 digest.
Md5Hex8(root) ==
  CASE root = "/proj" -> "70ec297f"
    [] root = "/lib" -> "fa2c7862"
    [] root = "/work/p94953" -> "3319cd04"
    [] root = "/work/p134040" -> "3319cd04"
ScopeId(root) == <<"scope-", Md5Hex8(root)>>     \* `scope-${hash}`

\* scopeMap.entries() as a set
Entries(map) == { map[k] : k \in 1..Len(map) }

\* File paths: a directory and a name.  TargetPath is the file the apply tools edit.
Path(dir, name) == [dir |-> dir, name |-> name]
Dirname(path) == path.dir
TargetPath == Path(ProjectRoot, "a.ts")
SiblingPath == Path(ProjectRoot, "b.ts")
OtherPath == Path("/lib", "c.ts")

\* `file://${filePath}`
FileUri(path) == <<"file://", path>>

\* getOrCreateScope(filePath) as a function of the scope map, the scopes the backend
\* has been told of and the bridge: the id it returns and what it leaves behind.
AlwaysCreateScopeFor(path, map, registered, bridge) ==
  LET root == Dirname(path)
  IN  [id |-> ScopeId(root),
       map |-> Append(map, <<root, ScopeId(root)>>),
       registered |-> IF bridge = "connected" THEN Append(registered, ScopeId(root))
                      ELSE registered]
GetOrCreateScopeFor(path, map, registered, bridge) ==
  LET root == Dirname(path)
      hit  == { e \in Entries(map) : e[1] = root }
  IN  IF hit # {}
      THEN [id |-> (CHOOSE e \in hit : TRUE)[2], map |-> map, registered |-> registered]
      ELSE [id |-> ScopeId(root),
            map |-> Append(map, <<root, ScopeId(root)>>),
            registered |-> IF bridge = "connected" THEN Append(registered, ScopeId(root))
                           ELSE registered]
Rules == {"S1", "S2"}

\* The target file: FileLines lines of LineWidth characters.
File == Join([i \in 1..FileLines |-> LineOf(i, LineWidth)])

Edit(sl, sc, el, ec, text) ==
  [startLine |-> sl, startLineOffset |-> sc, endLine |-> el, endLineOffset |-> ec,
   newText |-> text]
Absent == [present |-> FALSE, list |-> <<>>]
Present(list) == [present |-> TRUE, list |-> list]
TextEdits(edits) == [hasTextEdits |-> TRUE, textEdits |-> edits]
NoTextEdits == [hasTextEdits |-> FALSE, textEdits |-> <<>>]
Fix(msg, fileEdits) == [message |-> msg, inputFileEdits |-> Present(fileEdits), fileEdits |-> Absent]
LegacyFix(msg, fileEdits) == [message |-> msg, inputFileEdits |-> Absent, fileEdits |-> Present(fileEdits)]
BareFix(msg) == [message |-> msg, inputFileEdits |-> Absent, fileEdits |-> Absent]
OneEditFix(msg, e) == Fix(msg, <<TextEdits(<<e>>)>>)
Issue(rule, line, fixes) ==
  [ruleKey |-> rule, textRangeStartLine |-> line, startLine |-> NULL, quickFixes |-> fixes,
   severity |-> ""]

\* Edits with explicit coordinates inside the file: every span of one line and
\* every span from one line into the next.
SimpleEdits ==
  { Edit(l, sc, l, ec, t) :
      l \in 1..FileLines, sc \in 0..LineWidth, ec \in 0..LineWidth, t \in {<<>>, <<"X">>} }
  \cup
  { Edit(l, sc, l + 1, ec, t) :
      l \in 1..(FileLines - 1), sc \in 0..LineWidth, ec \in 0..LineWidth,
      t \in {<<>>, <<"X">>} }

\* Per line: delete the first character, insert at the end, join with the next line.
ProbeEdits ==
  { Edit(l, 0, l, 1, <<>>) : l \in 1..FileLines }
  \cup { Edit(l, LineWidth, l, LineWidth, <<"X">>) : l \in 1..FileLines }
  \cup { Edit(l, LineWidth, l + 1, 1, <<>>) : l \in 1..(FileLines - 1) }

\* An edit that addresses a line the file does not have.
BadEdit == Edit(1, 0, FileLines + 1, 1, <<"X">>)

\* Two Issues with one edit each: any span, then one of the per-line edits.
PairLists ==
  { <<Issue("S1", e1.startLine, <<OneEditFix("m1", e1)>>),
      Issue("S2", e2.startLine, <<OneEditFix("m2", e2)>>)>> :
      e1 \in SimpleEdits, e2 \in ProbeEdits }

\* Issues whose Fix edits another line than the Issue's own.
OffsetLists ==
  { <<Issue("S1", l1, <<OneEditFix("m1", e1)>>),
      Issue("S1", l2, <<OneEditFix("m2", e2)>>)>> :
      l1 \in 1..FileLines, l2 \in 1..FileLines,
      e1 \in ProbeEdits, e2 \in { Edit(l, 0, l, 1, <<"X">>) : l \in 1..FileLines } }

FixA == OneEditFix("first", Edit(1, 0, 1, 1, <<"X">>))
FixB == OneEditFix("second", Edit(2, 0, 2, 1, <<"Y">>))
FixNoMessage == OneEditFix("", Edit(2, 1, 2, 2, <<"X">>))
\* A Fix whose second edit throws after its first edit has changed the buffer.
FixHalf == Fix("half", <<TextEdits(<<BadEdit, Edit(FileLines, 0, FileLines, 1, <<"X">>)>>)>>)
FixTwoGroups ==
  Fix("groups", <<TextEdits(<<Edit(1, 1, 1, 2, <<"X">>)>>), NoTextEdits,
                  TextEdits(<<Edit(2, 1, 2, 2, <<"Y">>)>>)>>)
FixTwoEdits ==
  LegacyFix("two", <<TextEdits(<<Edit(1, 1, 1, 2, <<>>), Edit(2, 1, 2, 2, <<"X", "Y">>)>>)>>)
NoLineIssue(rule, fixes) ==
  [ruleKey |-> rule, textRangeStartLine |-> NULL, startLine |-> NULL, quickFixes |-> fixes,
   severity |-> ""]
LegacyLineIssue(rule, line, fixes) ==
  [ruleKey |-> rule, textRangeStartLine |-> NULL, startLine |-> line, quickFixes |-> fixes,
   severity |-> ""]

SpecialLists ==
  { <<>>,
    <<Issue("S1", 1, <<>>)>>,
    <<Issue("S1", 1, <<>>), Issue("S2", 2, <<>>)>>,
    <<Issue("S1", 1, <<BareFix("none")>>)>>,
    <<Issue("S1", 2, <<Fix("empty", <<>>)>>)>>,
    <<Issue("S1", 2, <<Fix("group", <<NoTextEdits>>)>>), Issue("S2", 1, <<>>)>>,
    <<Issue("S1", 1, <<Fix("noedits", <<TextEdits(<<>>)>>)>>), Issue("S2", 2, <<FixB>>)>>,
    <<Issue("S1", 1, <<FixA, FixB>>)>>,
    <<Issue("S1", 2, <<FixNoMessage, FixA>>), Issue("S2", 1, <<FixA, FixB>>)>>,
    <<Issue("S1", 1, <<BareFix("none"), FixA>>)>>,
    <<Issue("S1", 1, <<FixHalf>>)>>,
    <<Issue("S1", 1, <<FixA>>), Issue("S2", 2, <<FixHalf>>), Issue("S1", FileLines, <<FixB>>)>>,
    <<Issue("S1", 1, <<OneEditFix("bad", BadEdit)>>), Issue("S1", 1, <<FixA>>)>>,
    <<Issue("S1", 1, <<>>), Issue("S1", 1, <<FixA>>)>>,
    <<Issue("S1", 1, <<FixA>>), Issue("S1", 1, <<>>)>>,
    <<Issue("S1", 1, <<FixTwoGroups>>)>>,
    <<Issue("S2", 2, <<FixTwoEdits>>), Issue("S1", 1, <<>>)>>,
    <<NoLineIssue("S1", <<FixA>>), Issue("S2", 2, <<FixB>>)>>,
    <<NoLineIssue("S1", <<>>)>>,
    <<LegacyLineIssue("S1", 1, <<FixA>>), Issue("S2", 2, <<FixB>>),
      LegacyLineIssue("S1", 2, <<FixNoMessage>>)>>
  }

\* The 15-line file with fixable Issues at lines 3, 4, 5, 7 and 11.
ExampleFile == Join([i \in 1..15 |-> LineOf(i, 2)])
ExampleLines == <<3, 4, 5, 7, 11>>
ExampleIssues ==
  [i \in 1..5 |->
     Issue("S1", ExampleLines[i],
           <<OneEditFix("m", Edit(ExampleLines[i], 0, ExampleLines[i], 1, <<"X", "Y">>))>>)]

Scenarios ==
  { [file |-> File, issues |-> l] : l \in PairLists \cup OffsetLists \cup SpecialLists }
  \cup { [file |-> ExampleFile, issues |-> ExampleIssues] }

\* An Issue without Fixes that carries a severity.
SevIssue(rule, line, severity) ==
  [ruleKey |-> rule, textRangeStartLine |-> line, startLine |-> NULL, quickFixes |-> <<>>,
   severity |-> severity]

\* What the backend may report for a file that a Fix has changed: nothing, or
\* Issues of several severities (one without a severity) that no Fix remedies.
SecondResults ==
  { <<>>,
    <<SevIssue("S2", 1, "MINOR"), SevIssue("S1", 2, "BLOCKER"), SevIssue("S2", FileLines, ""),
      SevIssue("S1", 1, "BLOCKER"), SevIssue("S2", 2, "INFO")>> }

\* The backend's answer to analyzeFilesAndTrack for the current file content.
AnalysisResults ==
  IF backendContent = disk THEN {backendIssues} ELSE SecondResults

Ev(ev, i, line, content) == [ev |-> ev, idx |-> i, line |-> line, content |-> content]
\* The error object a handler throws, by kind: whether it is a SloopError, its
\* recoverable flag and what its userMessage advises.  Every other kind is a plain
\* Error (or no error at all): no flag, no userMessage.
SloopErrorOf(sloop, recoverable, userMessage) ==
  [sloopError |-> sloop, recoverable |-> recoverable, userMessage |-> userMessage]
Thrown(kind) ==
  CASE kind = "FileNotFound"        -> SloopErrorOf(TRUE, FALSE, "check the path")
    [] kind = "NoFilesProvided"     -> SloopErrorOf(TRUE, FALSE, "provide a file path")
    [] kind = "IssueNotFound"       -> SloopErrorOf(TRUE, FALSE, "file may have changed")
    [] kind = "NoQuickFixAvailable" -> SloopErrorOf(TRUE, FALSE, "no automated quick fix")
    [] kind = "BackendNotFound"     -> SloopErrorOf(TRUE, FALSE, "try reinstalling")
    [] kind = "BackendStartFailed"  -> SloopErrorOf(TRUE, TRUE, "check that Java is installed")
    [] OTHER                        -> SloopErrorOf(FALSE, FALSE, "")

\* error.message: the first argument of a SloopError; for an error of the file system,
\* of the applier or of the backend, the message it came with, which is named by kind.
ErrorMessage(kind) ==
  CASE kind = "FileNotFound"        -> "File not found"
    [] kind = "NoFilesProvided"     -> "No files provided"
    [] kind = "IssueNotFound"       -> "Issue not found"
    [] kind = "NoQuickFixAvailable" -> "No quick fix available"
    [] kind = "BackendNotFound"     -> "Backend not found"
    [] kind = "BackendStartFailed"  -> "Failed to initialize SLOOP"
    [] OTHER                        -> kind

\* A handleToolError that shows the message of every error.
HandleToolErrorMessageOnly(error, message) ==
  [isError |-> TRUE, text |-> <<"Error: ", message>>]

\* handleToolError(error), for an error with the given message; "Error: " stands for
\* the prefix both branches put before the text.
HandleToolError(error, message) ==
  [isError |-> TRUE,
   text |-> <<"Error: ", IF error.sloopError THEN error.userMessage ELSE message>>]

\* The callback of registerTool: what the handler returned, or handleToolError of what
\* it threw.  isError tells a throw; a handler never returns a response with isError.
ToolResponse(kind, isError) ==
  IF isError THEN HandleToolError(Thrown(kind), ErrorMessage(kind))
  ELSE [isError |-> FALSE, text |-> <<kind>>]

Res(kind, isError, message) ==
  [kind |-> kind, isError |-> isError, message |-> message, thrown |-> Thrown(kind),
   report |-> <<>>, response |-> ToolResponse(kind, isError)]
NoResult == Res("none", FALSE, "")

\* obj.field of an object that may lack the property: a missing number is NULL, a
\* missing string is "" (undefined and '' take the same branch of every || below).
Num(obj, field) == IF field \in DOMAIN obj THEN obj[field] ELSE NULL
Str(obj, field) == IF field \in DOMAIN obj THEN obj[field] ELSE ""
\* a || b on strings
StrOr(a, b) == IF a = "" THEN b ELSE a

\* transformSloopIssues, lines 34-42: the edits of the first Fix, group after group in
\* the order given, each with its defaults.
TransformEdit(edit) ==
  [startLine |-> Or(edit.startLine, 1),
   startColumn |-> Or(edit.startLineOffset, 0),
   endLine |-> Or(edit.endLine, 1),
   endColumn |-> Or(edit.endLineOffset, 0),
   newText |-> edit.newText]

RECURSIVE FlatMapEdits(_)
FlatMapEdits(fileEdits) ==
  IF Len(fileEdits) = 0 THEN <<>>
  ELSE LET textEdits == IF Head(fileEdits).hasTextEdits THEN Head(fileEdits).textEdits
                        ELSE <<>>
       IN  [k \in 1..Len(textEdits) |-> TransformEdit(textEdits[k])]
             \o FlatMapEdits(Tail(fileEdits))

\* transformSloopIssues, lines 17-26: the fields every output Issue has.
TransformFields(issue) ==
  [line |-> Or(Or(Num(issue, "textRangeStartLine"), Num(issue, "startLine")), 1),
   column |-> Or(Or(Num(issue, "textRangeStartLineOffset"), Num(issue, "startColumn")), 0),
   endLine |-> Or(Or(Or(Or(Num(issue, "textRangeEndLine"), Num(issue, "endLine")),
                        Num(issue, "textRangeStartLine")), Num(issue, "startLine")), 1),
   endColumn |-> Or(Or(Or(Or(Num(issue, "textRangeEndLineOffset"), Num(issue, "endColumn")),
                          Num(issue, "textRangeStartLineOffset")),
                       Num(issue, "startColumn")), 0),
   severity |-> StrOr(Str(issue, "severity"), "MAJOR"),
   rule |-> StrOr(Str(issue, "ruleKey"), "unknown"),
   ruleDescription |-> Str(issue, "ruleDescriptionContextKey"),
   message |-> StrOr(StrOr(Str(issue, "primaryMessage"), Str(issue, "message")),
                     "No description")]

\* transformSloopIssues: rawIssues.map(...); quickFix is set when the Issue has a Fix.
TransformSloopIssues(issues) ==
  [i \in 1..Len(issues) |->
     IF Len(issues[i].quickFixes) > 0
     THEN TransformFields(issues[i]) @@
          ("quickFix" :>
             [description |-> StrOr(FirstFix(issues[i]).message, "Apply fix"),
              edits |-> FlatMapEdits(FileEditsOf(FirstFix(issues[i])))])
     ELSE TransformFields(issues[i])]

\* for (const severity of ['BLOCKER', 'CRITICAL', 'MAJOR', 'MINOR', 'INFO'])
SeverityOrderAscending == <<"INFO", "MINOR", "MAJOR", "CRITICAL", "BLOCKER">>
SeverityOrder == <<"BLOCKER", "CRITICAL", "MAJOR", "MINOR", "INFO">>

\* One line of the summary text.
Line(tag, n, line, rule, text) ==
  [tag |-> tag, n |-> n, line |-> line, rule |-> rule, text |-> text]

\* The remaining Issues of one severity: a heading with their number, then one line
\* each; nothing when there is none.
GroupLines(transformed, severity) ==
  LET group == SelectSeq(transformed, LAMBDA issue : issue.severity = severity)
  IN  IF Len(group) = 0 THEN <<>>
      ELSE <<Line("group", Len(group), 0, "", severity)>>
           \o [k \in 1..Len(group) |-> Line("issue", 0, group[k].line, group[k].rule, severity)]

RECURSIVE GroupsFrom(_, _)
GroupsFrom(transformed, severities) ==
  IF Len(severities) = 0 THEN <<>>
  ELSE GroupLines(transformed, Head(severities)) \o GroupsFrom(transformed, Tail(severities))

\* handleApplyAllQuickFixes, lines 139-182: the summary, line by line.
Summary(applied, failed, remaining) ==
  <<Line("Applied", Len(applied), 0, "", "")>>
  \o (IF Len(failed) > 0 THEN <<Line("Failed", Len(failed), 0, "", "")>> ELSE <<>>)
  \o <<Line("Remaining", Len(remaining), 0, "", "")>>
  \o (IF Len(applied) > 0
      THEN <<Line("Fixed Issues", 0, 0, "", "")>>
           \o [k \in 1..Len(applied) |->
                 Line("fixed", 0, applied[k].line, applied[k].rule, applied[k].message)]
      ELSE <<>>)
  \o (IF Len(failed) > 0
      THEN <<Line("Failed Fixes", 0, 0, "", "")>>
           \o [k \in 1..Len(failed) |->
                 Line("failure", 0, failed[k].line, failed[k].rule, failed[k].error)]
      ELSE <<>>)
  \o (IF Len(remaining) > 0
      THEN <<Line("Remaining Issues", 0, 0, "", "")>>
           \o GroupsFrom(TransformSloopIssues(remaining), SeverityOrder)
      ELSE <<Line("All issues resolved", 0, 0, "", "")>>)

\* What handleApplyAllQuickFixes returns after the second analysis.
ReportResultFailing(applied, failed, remaining) ==
  [Res("QuickFixesApplied", Len(failed) > 0, "") EXCEPT
     !.report = Summary(applied, failed, remaining)]
ReportResult(applied, failed, remaining) ==
  [Res("QuickFixesApplied", FALSE, "") EXCEPT !.report = Summary(applied, failed, remaining)]

Init ==
  /\ edPc = "unused" /\ edLines = <<>> /\ edEdit = Edit(NULL, NULL, NULL, NULL, <<>>)
  /\ edOut = [ok |-> FALSE, lines |-> <<>>]
  /\ \E sc \in Scenarios :
       /\ disk = sc.file
       /\ backendIssues = sc.issues
       /\ backendContent = sc.file
       /\ fileExists \in (IF sc.issues = <<>> THEN BOOLEAN ELSE {TRUE})
  /\ sloopBridge = "none"
  /\ scopeMap = <<>>
  /\ backendScopes = <<>>
  /\ pc = "idle" /\ tool = "none" /\ argLine = 0 /\ argRule = "none"
  /\ rawIssues = <<>> /\ sortedIssues = <<>> /\ idx = 0
  /\ appliedFixes = <<>> /\ failedFixes = <<>> /\ remainingIssues = <<>>
  /\ result = NoResult
  /\ snapshot = <<>> /\ log = <<>>
  /\ argFiles = <<>> /\ filesByScope = <<>>
  /\ lastCall = [tool |-> "none", kind |-> "none", total |-> 0, content |-> <<>>]
  /\ sessionResults = <<>> /\ batchResults = <<>>
  /\ calls = <<>> /\ turns = <<>>
  /\ fnPc = "unused" /\ fnIn = <<>> /\ fnOut = <<>>

\* A handler is entered: lines 8-20 of both apply handlers.
Invoke(t, line, rule) ==
  /\ pc = "idle"
  /\ tool' = t /\ argLine' = line /\ argRule' = rule
  /\ rawIssues' = <<>> /\ sortedIssues' = <<>> /\ idx' = 0
  /\ appliedFixes' = <<>> /\ failedFixes' = <<>> /\ remainingIssues' = <<>>
  /\ snapshot' = disk
  /\ log' = <<>>
  /\ IF ~fileExists
     THEN pc' = "done" /\ result' = Res("FileNotFound", TRUE, "")
     ELSE pc' = "bridge" /\ result' = NoResult
  /\ UNCHANGED <<lastCall, resVars, edVars, parVars, fnVars, batchVars, envVars>>

InvokeApplyAll == Invoke("apply_all", 0, "none")
InvokeApplyQuickFix == \E line \in 0..FileLines, rule \in Rules : Invoke("apply_one", line, rule)

\* Where a handler goes on after ensureSloopBridge() has returned the bridge.
AfterBridge(t) == IF t = "analyze_files" THEN "batch" ELSE "scope"

\* await ensureSloopBridge()
EnsureSloopBridge ==
  /\ pc = "bridge"
  /\ \/ /\ sloopBridge = "connected"
        /\ pc' = AfterBridge(tool)
        /\ UNCHANGED <<sloopBridge, result>>
     \/ /\ sloopBridge = "none"
        /\ \E outcome \in {"connected", "pluginsMissing", "connectFailed"} :
             IF outcome = "connected"
             THEN sloopBridge' = "connected" /\ pc' = AfterBridge(tool) /\ UNCHANGED result
             ELSE /\ UNCHANGED sloopBridge
                  /\ pc' = "done"
                  /\ result' = Res(IF outcome = "pluginsMissing" THEN "BackendNotFound"
                                   ELSE "BackendStartFailed", TRUE, "")
  /\ log' = Append(log, Ev("ensureSloopBridge", 0, 0, <<>>))
  /\ UNCHANGED <<lastCall, resVars, edVars, parVars, fnVars, batchVars, fileExists, disk, scopeMap, backendScopes, backendIssues,
                 backendContent, tool, argLine, argRule, rawIssues, sortedIssues, idx,
                 appliedFixes, failedFixes, remainingIssues, snapshot>>

\* getOrCreateScope(filePath), then the analyze request is sent.
GetOrCreateScope ==
  /\ pc = "scope"
  /\ LET r == GetOrCreateScopeFor(TargetPath, scopeMap, backendScopes, sloopBridge)
     IN  /\ scopeMap' = r.map
         /\ backendScopes' = r.registered
         /\ log' = log \o <<Ev("getOrCreateScope", 0, 0, r.id), Ev("analyze", 0, 0, disk)>>
  /\ pc' = "analyze"
  /\ UNCHANGED <<lastCall, resVars, edVars, parVars, fnVars, batchVars, fileExists, disk, sloopBridge, backendIssues, backendContent,
                 tool, argLine, argRule, rawIssues, sortedIssues, idx,
                 appliedFixes, failedFixes, remainingIssues, result, snapshot>>

\* bridge.analyzeFilesAndTrack rejects: the error leaves the handler.
AnalysisFails ==
  /\ pc \in {"analyze", "reanalyze", "batch"}
  /\ pc' = "done"
  /\ result' = Res("AnalysisFailed", TRUE, "")
  /\ UNCHANGED <<lastCall, resVars, edVars, parVars, fnVars, batchVars, envVars, tool, argLine, argRule, rawIssues, sortedIssues, idx,
                 appliedFixes, failedFixes, remainingIssues, snapshot, log>>

\* handleApplyAllQuickFixes, lines 25-61: the first analysis returns; filter and sort.
ApplyAllAnalyzed ==
  /\ pc = "analyze" /\ tool = "apply_all"
  /\ \E issues \in AnalysisResults :
       /\ rawIssues' = issues
       /\ backendIssues' = issues
       /\ backendContent' = disk
       /\ IF PlanIsEmpty(FilterIssues(issues))
          THEN /\ pc' = "done"
               /\ result' = Res("NoQuickFixes", FALSE, "")
               /\ UNCHANGED <<sortedIssues, idx>>
          ELSE /\ sortedIssues' = SortIssues(FilterIssues(issues))
               /\ idx' = 1
               /\ pc' = AfterStep(0, Len(FilterIssues(issues)), TRUE)
               /\ UNCHANGED result
  /\ UNCHANGED <<lastCall, resVars, edVars, parVars, fnVars, batchVars, fileExists, disk, sloopBridge, scopeMap, backendScopes,
                 tool, argLine, argRule, appliedFixes, failedFixes, remainingIssues,
                 snapshot, log>>

\* handleApplyAllQuickFixes, lines 63-126: one iteration of the apply loop.
ApplyAllStep ==
  /\ pc = "loop"
  /\ \E io \in {"ok", "readError", "writeError"} :
       LET issue == sortedIssues[idx]
           line  == IssueLine(issue)
           r     == IssueStep(disk, issue, io)
       IN  /\ disk' = r.content
           /\ pc' = AfterStep(idx, Len(sortedIssues), r.ok)
           /\ IF r.ok
              THEN /\ appliedFixes' = Append(appliedFixes,
                         [line |-> line, rule |-> issue.ruleKey,
                          message |-> FixMessage(FirstFix(issue)), idx |-> idx])
                   /\ UNCHANGED failedFixes
                   /\ log' = log \o <<Ev("attempt", idx, line, disk),
                                      Ev("write", idx, line, r.content)>>
              ELSE /\ failedFixes' = Append(failedFixes,
                         [line |-> line, rule |-> issue.ruleKey,
                          error |-> r.error, idx |-> idx])
                   /\ UNCHANGED appliedFixes
                   /\ log' = log \o <<Ev("attempt", idx, line, disk),
                                      Ev("failed", idx, line, r.content)>>
  /\ idx' = idx + 1
  /\ UNCHANGED <<lastCall, resVars, edVars, parVars, fnVars, batchVars, fileExists, sloopBridge, scopeMap, backendScopes, backendIssues,
                 backendContent, tool, argLine, argRule, rawIssues, sortedIssues,
                 remainingIssues, result, snapshot>>

\* rawIssues.find(issue => issueLine === line && issue.ruleKey === rule): the index
\* of the first match, 0 when there is none.
FindIssueByLineOnly(issues, line, rule) ==
  LET matches == { i \in 1..Len(issues) : IssueLine(issues[i]) = line }
  IN  IF matches = {} THEN 0 ELSE CHOOSE i \in matches : \A j \in matches : i <= j
FindIssue(issues, line, rule) ==
  LET matches == { i \in 1..Len(issues) :
                     IssueLine(issues[i]) = line /\ issues[i].ruleKey = rule }
  IN  IF matches = {} THEN 0 ELSE CHOOSE i \in matches : \A j \in matches : i <= j

\* handleApplyQuickFix, lines 50-121: debug dump, read, edit, write; nothing is caught.
QuickFixStep(content, quickFix, io) ==
  IF io = "debugWriteError" THEN [ok |-> FALSE, content |-> content, error |-> "write failed"]
  ELSE IF io = "readError" THEN [ok |-> FALSE, content |-> content, error |-> "read failed"]
  ELSE LET r == ApplyFix(content, quickFix)
       IN  IF ~r.ok THEN [ok |-> FALSE, content |-> content, error |-> "TypeError"]
           ELSE IF io = "writeError"
           THEN [ok |-> FALSE, content |-> content, error |-> "write failed"]
           ELSE [ok |-> TRUE, content |-> r.content, error |-> ""]

\* handleApplyQuickFix, lines 25-121: the analysis returns; find the Issue and apply
\* its first Fix.
ApplyQuickFixAnalyzed ==
  /\ pc = "analyze" /\ tool = "apply_one"
  /\ \E issues \in AnalysisResults :
       LET t == FindIssue(issues, argLine, argRule) IN
       /\ rawIssues' = issues
       /\ backendIssues' = issues
       /\ backendContent' = disk
       /\ \/ /\ t = 0
             /\ pc' = "done"
             /\ result' = Res("IssueNotFound", TRUE, "")
             /\ UNCHANGED <<disk, appliedFixes, log>>
          \/ /\ t # 0
             /\ Len(issues[t].quickFixes) = 0
             /\ pc' = "done"
             /\ result' = Res("NoQuickFixAvailable", TRUE, "")
             /\ UNCHANGED <<disk, appliedFixes, log>>
          \/ /\ t # 0
             /\ Len(issues[t].quickFixes) > 0
             /\ \E io \in {"ok", "debugWriteError", "readError", "writeError"} :
                  LET quickFix == FirstFix(issues[t])
                      r == QuickFixStep(disk, quickFix, io)
                  IN  /\ disk' = r.content
                      /\ IF r.ok
                         THEN /\ pc' = "notify"
                              /\ appliedFixes' =
                                   <<[line |-> argLine, rule |-> argRule,
                                      message |-> FixMessage(quickFix), idx |-> t]>>
                              /\ log' = log \o <<Ev("attempt", t, argLine, disk),
                                                 Ev("write", t, argLine, r.content)>>
                              /\ UNCHANGED result
                         ELSE /\ pc' = "done"
                              /\ result' = Res(r.error, TRUE, "")
                              /\ log' = Append(log, Ev("attempt", t, argLine, disk))
                              /\ UNCHANGED appliedFixes
  /\ UNCHANGED <<lastCall, resVars, edVars, parVars, fnVars, batchVars, fileExists, sloopBridge, scopeMap, backendScopes,
                 tool, argLine, argRule, sortedIssues, idx, failedFixes, remainingIssues,
                 snapshot>>

\* Where the caller of notifyFileSystemChanged goes on: the catch block at lines
\* 183-186 logs and does not rethrow, so the promise resolves whatever happened.
AfterNotifyRethrow(outcome) == IF outcome = "ok" THEN "settle" ELSE "done"
AfterNotify(outcome) == "settle"

\* notifyFileSystemChanged(filePath, scopeId): whatever fails inside is swallowed.
\* The bridge is the one the handler obtained, so ensureSloopBridge() returns it;
\* sendNotification or readFileSync may throw.
\* Lines 121-132: the root of the first entry of the map that holds the scope id,
\* or the file's directory when there is none.
ProjectRootOf(map, configScopeId, path) ==
  LET hits == { k \in 1..Len(map) : map[k][2] = configScopeId }
  IN  IF hits = {} THEN Dirname(path)
      ELSE map[CHOOSE k \in hits : \A j \in hits : k <= j][1]

\* relative(projectRoot, filePath): the file name under the file's own directory,
\* and a path that first climbs out of the root otherwise.
Relative(root, path) ==
  IF root = Dirname(path) THEN <<path.name>> ELSE <<"..", Dirname(path), path.name>>

\* languageToEnum(detectLanguage(filePath)): every file of the model is a .ts file.
DetectedLanguage(path) == "TS"

ClientFileDto(path, configScopeId, map, fileContent) ==
  [uri |-> FileUri(path),
   ideRelativePath |-> Relative(ProjectRootOf(map, configScopeId, path), path),
   configScopeId |-> configScopeId,
   isTest |-> NULL,
   charset |-> "UTF-8",
   fsPath |-> path,
   content |-> fileContent,
   detectedLanguage |-> DetectedLanguage(path),
   isUserDefined |-> TRUE]

\* bridge.sendNotification('file/didOpenFile', ...)
DidOpenFile(path, configScopeId) ==
  [ev |-> "didOpenFile", idx |-> 0, line |-> 0, content |-> <<>>,
   configurationScopeId |-> configScopeId, fileUri |-> FileUri(path)]

\* bridge.sendNotification('file/didUpdateFileSystem', ...)
DidUpdateFileSystem(clientFileDto) ==
  [ev |-> "didUpdateFileSystem", idx |-> 0, line |-> 0, content |-> clientFileDto.content,
   addedFiles |-> <<>>, changedFiles |-> <<clientFileDto>>, removedFiles |-> <<>>]

\* A notifier that reports the change before it marks the file as open.
NotificationsUpdateFirst(outcome, path, configScopeId, map, fileContent) ==
  IF outcome = "openFails" THEN <<>>
  ELSE IF outcome = "ok"
  THEN <<DidUpdateFileSystem(ClientFileDto(path, configScopeId, map, fileContent)),
         DidOpenFile(path, configScopeId)>>
  ELSE <<DidOpenFile(path, configScopeId)>>

\* What the bridge has been sent when notifyFileSystemChanged returns: nothing when
\* the first sendNotification throws, the first notification alone when readFileSync
\* or the second sendNotification throws.
Notifications(outcome, path, configScopeId, map, fileContent) ==
  IF outcome = "openFails" THEN <<>>
  ELSE IF outcome = "ok"
  THEN <<DidOpenFile(path, configScopeId),
         DidUpdateFileSystem(ClientFileDto(path, configScopeId, map, fileContent))>>
  ELSE <<DidOpenFile(path, configScopeId)>>

\* const scopeId of the running handler: what getOrCreateScope(filePath) returned,
\* which is what the map holds for the file's directory ever since.
HandlerScopeId == GetOrCreateScopeFor(TargetPath, scopeMap, backendScopes, sloopBridge).id

NotifyFileSystemChanged ==
  /\ pc = "notify"
  /\ \E outcome \in {"ok", "openFails", "readFails", "updateFails"} :
       /\ log' = log \o <<Ev("notifyFileSystemChanged", 0, 0, <<outcome>>)>> \o
            Notifications(outcome, TargetPath, HandlerScopeId, scopeMap, disk)
       /\ pc' = AfterNotify(outcome)
  /\ UNCHANGED <<lastCall, resVars, edVars, parVars, fnVars, batchVars, envVars, tool, argLine, argRule, rawIssues, sortedIssues, idx,
                 appliedFixes, failedFixes, remainingIssues, result, snapshot>>

\* handleApplyAllQuickFixes, lines 131-134: the 500 ms wait ends, then the second
\* analyze request is sent.
SettleEventsNoWait(content) == <<Ev("analyze", 0, 0, content)>>
SettleEvents(content) == <<Ev("settled", 0, 0, <<>>), Ev("analyze", 0, 0, content)>>

\* await new Promise(resolve => setTimeout(resolve, 500)) and what follows it.
Settle ==
  /\ pc = "settle"
  /\ \/ /\ tool = "apply_all"
        /\ pc' = "reanalyze"
        /\ log' = log \o SettleEvents(disk)
        /\ UNCHANGED result
     \/ /\ tool = "apply_one"
        /\ pc' = "done"
        /\ log' = Append(log, Ev("settled", 0, 0, <<>>))
        /\ result' = Res("QuickFixApplied", FALSE, appliedFixes[1].message)
  /\ UNCHANGED <<lastCall, resVars, edVars, parVars, fnVars, batchVars, envVars, tool, argLine, argRule, rawIssues, sortedIssues, idx,
                 appliedFixes, failedFixes, remainingIssues, snapshot>>

\* handleApplyAllQuickFixes, lines 134-191: the second analysis returns; the report.
ApplyAllReanalyzed ==
  /\ pc = "reanalyze"
  /\ \E issues \in AnalysisResults :
       /\ remainingIssues' = issues
       /\ backendIssues' = issues
       /\ backendContent' = disk
       /\ result' = ReportResult(appliedFixes, failedFixes, issues)
  /\ pc' = "done"
  /\ UNCHANGED <<lastCall, resVars, edVars, parVars, fnVars, batchVars, fileExists, disk, sloopBridge, scopeMap, backendScopes,
                 tool, argLine, argRule, rawIssues, sortedIssues, idx,
                 appliedFixes, failedFixes, snapshot, log>>

\* The response is delivered; the server waits for the next call.
Return ==
  /\ pc = "done"
  /\ pc' = "idle" /\ tool' = "none" /\ argLine' = 0 /\ argRule' = "none"
  /\ rawIssues' = <<>> /\ sortedIssues' = <<>> /\ idx' = 0
  /\ appliedFixes' = <<>> /\ failedFixes' = <<>> /\ remainingIssues' = <<>>
  /\ result' = NoResult
  /\ snapshot' = <<>> /\ log' = <<>>
  /\ argFiles' = <<>> /\ filesByScope' = <<>>
  /\ UNCHANGED resVars
  /\ lastCall' = IF tool = "apply_all" /\ result.kind = "NoQuickFixes"
                 THEN [tool |-> tool, kind |-> result.kind, total |-> Len(rawIssues),
                       content |-> disk]
                 ELSE [tool |-> "none", kind |-> "none", total |-> 0, content |-> <<>>]
  /\ UNCHANGED <<edVars, parVars, fnVars, envVars>>

Next ==
  \/ InvokeApplyAll
  \/ InvokeApplyQuickFix
  \/ EnsureSloopBridge
  \/ GetOrCreateScope
  \/ AnalysisFails
  \/ ApplyAllAnalyzed
  \/ ApplyAllStep
  \/ ApplyQuickFixAnalyzed
  \/ NotifyFileSystemChanged
  \/ Settle
  \/ ApplyAllReanalyzed
  \/ Return

Spec == Init /\ [][Next]_vars

(***************************************************************************)
(* SpecTools: the analyze tools next to the apply tools, over several      *)
(* files and project roots.                                                *)
(***************************************************************************)
\* existsSync(path): only the target file may be missing.
Exists(path) == path # TargetPath \/ fileExists

\* filePaths.filter(fp => !existsSync(fp))
NoMissingFiles(paths) == <<>>
MissingFiles(paths) == SelectSeq(paths, LAMBDA fp : ~Exists(fp))

\* The filePaths arguments of analyze_files.
PathLists ==
  { <<>>, <<TargetPath>>, <<SiblingPath>>, <<OtherPath>>, <<TargetPath, SiblingPath>>,
    <<OtherPath, TargetPath>>, <<SiblingPath, OtherPath>>,
    <<SiblingPath, OtherPath, TargetPath>> }

ToolScenarios == { [file |-> File, issues |-> l] : l \in SpecialLists }

InitTools ==
  /\ edPc = "unused" /\ edLines = <<>> /\ edEdit = Edit(NULL, NULL, NULL, NULL, <<>>)
  /\ edOut = [ok |-> FALSE, lines |-> <<>>]
  /\ \E sc \in ToolScenarios :
       /\ disk = sc.file
       /\ backendIssues = sc.issues
       /\ backendContent = sc.file
  /\ fileExists \in BOOLEAN
  /\ sloopBridge = "none"
  /\ scopeMap = <<>>
  /\ backendScopes = <<>>
  /\ pc = "idle" /\ tool = "none" /\ argLine = 0 /\ argRule = "none"
  /\ rawIssues = <<>> /\ sortedIssues = <<>> /\ idx = 0
  /\ appliedFixes = <<>> /\ failedFixes = <<>> /\ remainingIssues = <<>>
  /\ result = NoResult
  /\ snapshot = <<>> /\ log = <<>>
  /\ argFiles = <<>> /\ filesByScope = <<>>
  /\ lastCall = [tool |-> "none", kind |-> "none", total |-> 0, content |-> <<>>]
  /\ sessionResults = <<>> /\ batchResults = <<>>
  /\ calls = <<>> /\ turns = <<>>
  /\ fnPc = "unused" /\ fnIn = <<>> /\ fnOut = <<>>

\* handleAnalyzeFile, lines 12-37: the file exists and a.ts has a known language.
InvokeAnalyzeFile == Invoke("analyze_file", 0, "none")

\* handleAnalyzeFile, lines 50-96: the analysis returns and the result is formatted.
\* What line 84 stores for the resources is followed in SpecSession.
AnalyzeFileAnalyzed ==
  /\ pc = "analyze" /\ tool = "analyze_file"
  /\ \E issues \in AnalysisResults :
       /\ rawIssues' = issues
       /\ backendIssues' = issues
       /\ backendContent' = disk
  /\ pc' = "done"
  /\ result' = Res("Analyzed", FALSE, "")
  /\ UNCHANGED <<lastCall, resVars, edVars, parVars, fnVars, batchVars, fileExists, disk, sloopBridge, scopeMap,
                 backendScopes, tool, argLine, argRule, sortedIssues, idx,
                 appliedFixes, failedFixes, remainingIssues, snapshot, log>>

\* handleAnalyzeFiles, lines 11-35: the argument checks.
InvokeAnalyzeFiles ==
  /\ pc = "idle"
  /\ \E paths \in PathLists :
       /\ argFiles' = paths
       /\ IF Len(paths) = 0
          THEN pc' = "done" /\ result' = Res("NoFilesProvided", TRUE, "") /\ idx' = 0
          ELSE IF Len(MissingFiles(paths)) > 0
          THEN pc' = "done" /\ result' = Res("FileNotFound", TRUE, "") /\ idx' = 0
          ELSE pc' = "group" /\ result' = NoResult /\ idx' = 1
  /\ tool' = "analyze_files" /\ argLine' = 0 /\ argRule' = "none"
  /\ rawIssues' = <<>> /\ sortedIssues' = <<>>
  /\ appliedFixes' = <<>> /\ failedFixes' = <<>> /\ remainingIssues' = <<>>
  /\ snapshot' = disk
  /\ log' = <<>>
  /\ filesByScope' = <<>>
  /\ UNCHANGED <<lastCall, resVars, edVars, parVars, fnVars, envVars>>

\* handleAnalyzeFiles, lines 41-47: one file is put under its scope.
AnalyzeFilesGroup ==
  /\ pc = "group"
  /\ LET r == GetOrCreateScopeFor(argFiles[idx], scopeMap, backendScopes, sloopBridge)
     IN  /\ scopeMap' = r.map
         /\ backendScopes' = r.registered
         /\ filesByScope' = IF \E k \in 1..Len(filesByScope) : filesByScope[k] = r.id
                            THEN filesByScope ELSE Append(filesByScope, r.id)
         /\ log' = Append(log, Ev("getOrCreateScope", idx, 0, r.id))
  /\ IF idx < Len(argFiles)
     THEN pc' = "group" /\ idx' = idx + 1
     ELSE pc' = "bridge" /\ idx' = 1
  /\ UNCHANGED <<lastCall, resVars, edVars, parVars, fnVars, fileExists, disk, sloopBridge, backendIssues, backendContent,
                 tool, argLine, argRule, rawIssues, sortedIssues, appliedFixes, failedFixes,
                 remainingIssues, result, snapshot, argFiles>>

\* handleAnalyzeFiles, lines 60-104: the analysis of one scope returns.  What line 136
\* stores for the resources is followed in SpecSession.
AnalyzeFilesScope ==
  /\ pc = "batch"
  /\ log' = Append(log, Ev("analyze", idx, 0, filesByScope[idx]))
  /\ IF idx < Len(filesByScope)
     THEN pc' = "batch" /\ idx' = idx + 1 /\ UNCHANGED result
     ELSE pc' = "done" /\ idx' = idx /\ result' = Res("BatchAnalyzed", FALSE, "")
  /\ UNCHANGED <<lastCall, resVars, edVars, parVars, fnVars, batchVars, envVars, tool, argLine, argRule, rawIssues,
                 sortedIssues, appliedFixes, failedFixes, remainingIssues, snapshot>>

NextTools ==
  \/ Next
  \/ InvokeAnalyzeFile
  \/ InvokeAnalyzeFiles
  \/ AnalyzeFileAnalyzed
  \/ AnalyzeFilesGroup
  \/ AnalyzeFilesScope

SpecTools == InitTools /\ [][NextTools]_vars

PcValues ==
  {"idle", "bridge", "scope", "analyze", "loop", "notify", "settle", "reanalyze", "done",
   "group", "batch"}

\* A call that has started is carried on: the handlers are async functions whose
\* awaits resolve or reject, so a running call always takes its next step.  Every
\* step of a handler moves pc or idx, and a running call always has such a step.
CallStep ==
  /\ pc # "idle"
  /\ pc' \in PcValues
  /\ idx' \in 0..(Len(sortedIssues) + Len(argFiles) + 1)

SpecLive == SpecTools /\ WF_<<pc, idx>>(CallStep)

(***************************************************************************)
(* Functions of the program on their own: each specification below draws   *)
(* an input, applies one function and keeps the output.                    *)
(***************************************************************************)
\* Every variable of the tool calls at rest.
AtRest ==
  /\ edPc = "unused" /\ edLines = <<>> /\ edEdit = Edit(NULL, NULL, NULL, NULL, <<>>)
  /\ edOut = [ok |-> FALSE, lines |-> <<>>]
  /\ fileExists = TRUE /\ disk = <<>> /\ sloopBridge = "none" /\ scopeMap = <<>>
  /\ backendScopes = <<>> /\ backendIssues = <<>> /\ backendContent = <<>>
  /\ pc = "idle" /\ tool = "none" /\ argLine = 0 /\ argRule = "none"
  /\ rawIssues = <<>> /\ sortedIssues = <<>> /\ idx = 0
  /\ appliedFixes = <<>> /\ failedFixes = <<>> /\ remainingIssues = <<>>
  /\ result = NoResult
  /\ snapshot = <<>> /\ log = <<>>
  /\ argFiles = <<>> /\ filesByScope = <<>>
  /\ lastCall = [tool |-> "none", kind |-> "none", total |-> 0, content |-> <<>>]
  /\ sessionResults = <<>> /\ batchResults = <<>>
  /\ calls = <<>> /\ turns = <<>>

FnFrame == UNCHANGED <<fnIn, edVars, parVars, envVars, callVars, lastCall, resVars>>

\* Raw Issues as transformSloopIssues may receive them.  The textRange is absent or
\* has any of its four numbers; the flat position fields are absent or all present.
RawPositions ==
  { [textRangeStartLine |-> tl, textRangeStartLineOffset |-> tc,
     textRangeEndLine |-> tel, textRangeEndLineOffset |-> tec,
     startLine |-> IF flat THEN 1 ELSE NULL,
     startColumn |-> IF flat THEN LineWidth ELSE NULL,
     endLine |-> IF flat THEN FileLines ELSE NULL,
     endColumn |-> IF flat THEN 1 ELSE NULL] :
      tl \in {NULL} \cup (1..FileLines), tc \in {NULL} \cup (0..LineWidth),
      tel \in {NULL, FileLines}, tec \in {NULL, 0, LineWidth}, flat \in BOOLEAN }

RawTexts ==
  { [ruleKey |-> r, severity |-> sv, ruleDescriptionContextKey |-> d,
     primaryMessage |-> m[1], message |-> m[2], quickFixes |-> q] :
      r \in {"", "S1"}, sv \in {"", "INFO", "BLOCKER"}, d \in {"", "ctx"},
      m \in {<<"", "">>, <<"primary", "other">>, <<"", "other">>},
      q \in {<<>>, <<FixTwoGroups, FixA>>, <<BareFix("")>>,
             <<OneEditFix("m", Edit(NULL, NULL, NULL, NULL, <<>>))>>} }

PlainPosition ==
  [textRangeStartLine |-> 2, textRangeStartLineOffset |-> 1, textRangeEndLine |-> 2,
   textRangeEndLineOffset |-> LineWidth, startLine |-> NULL, startColumn |-> NULL,
   endLine |-> NULL, endColumn |-> NULL]
PlainText ==
  [ruleKey |-> "S2", severity |-> "MINOR", ruleDescriptionContextKey |-> "",
   primaryMessage |-> "primary", message |-> "", quickFixes |-> <<>>]

RawIssueInputs ==
  { p @@ PlainText : p \in RawPositions } \cup { PlainPosition @@ t : t \in RawTexts }

RawIssueLists ==
  { <<>> } \cup { <<i>> : i \in RawIssueInputs }
  \cup { <<i, j>> : i \in RawIssueInputs,
                    j \in { PlainPosition @@ PlainText, SevIssue("S1", 1, "") } }

TransformInit ==
  /\ AtRest
  /\ fnPc = "input"
  /\ fnIn \in RawIssueLists
  /\ fnOut = <<>>

TransformApply ==
  /\ fnPc = "input"
  /\ fnOut' = TransformSloopIssues(fnIn)
  /\ fnPc' = "applied"
  /\ FnFrame

TransformNext == TransformApply

SpecTransform == TransformInit /\ [][TransformNext]_vars

(***************************************************************************)
(* SpecFilter: what analyze_file and analyze_files do with the backend's   *)
(* answer: transform, filter by minSeverity and excludeRules, summarise.   *)
(* minSeverity is "" and excludeRules is <<>> when the caller gave none.   *)
(***************************************************************************)
\* severityOrder[severity]: undefined (NULL) for a key the table does not have.
SeverityLevel(severity) ==
  CASE severity = "INFO" -> 0 [] severity = "MINOR" -> 1 [] severity = "MAJOR" -> 2
    [] severity = "CRITICAL" -> 3 [] severity = "BLOCKER" -> 4 [] OTHER -> NULL

\* if (minSeverity) issues = issues.filter(issue => (severityOrder[issue.severity] || 0) >= minLevel)
FilterAboveSeverity(issues, minSeverity) ==
  IF minSeverity = "" THEN issues
  ELSE SelectSeq(issues, LAMBDA issue :
                   Or(SeverityLevel(issue.severity), 0) > SeverityLevel(minSeverity))
FilterBySeverity(issues, minSeverity) ==
  IF minSeverity = "" THEN issues
  ELSE SelectSeq(issues, LAMBDA issue :
                   Or(SeverityLevel(issue.severity), 0) >= SeverityLevel(minSeverity))

\* if (excludeRules && excludeRules.length > 0) issues = issues.filter(issue => !excludeRules.includes(issue.rule))
FilterByRules(issues, excludeRules) ==
  IF Len(excludeRules) > 0
  THEN SelectSeq(issues, LAMBDA issue :
                   ~\E k \in 1..Len(excludeRules) : excludeRules[k] = issue.rule)
  ELSE issues

\* severity.toLowerCase()
ToLowerCase(severity) ==
  CASE severity = "INFO" -> "info" [] severity = "MINOR" -> "minor"
    [] severity = "MAJOR" -> "major" [] severity = "CRITICAL" -> "critical"
    [] severity = "BLOCKER" -> "blocker" [] OTHER -> severity

\* The counters of a summary: one per key of bySeverity; a severity that is no key
\* is not counted.
BySeverity(issues) ==
  [key \in {"blocker", "critical", "major", "minor", "info"} |->
     Cardinality({ i \in 1..Len(issues) : ToLowerCase(issues[i].severity) = key })]

\* createSummary(issues, rulesChecked)
CreateSummary(issues, rulesChecked) ==
  [total |-> Len(issues), bySeverity |-> BySeverity(issues), rulesChecked |-> rulesChecked]

\* handleAnalyzeFile, lines 57-81: the result for one file.
AnalyzeFileResult(raw, minSeverity, excludeRules) ==
  LET issues == FilterByRules(FilterBySeverity(TransformSloopIssues(raw), minSeverity),
                              excludeRules)
  IN  [issues |-> issues, summary |-> CreateSummary(issues, 265)]

\* handleAnalyzeFiles, lines 66-103: the results for the files of one scope, given the
\* backend's answer for the scope.
ScopeResults(files, raw, minSeverity, excludeRules) ==
  [k \in 1..Len(files) |->
     LET fileIssues == SelectSeq(raw, LAMBDA issue : issue.fileUri = FileUri(files[k]))
         issues == FilterByRules(FilterBySeverity(TransformSloopIssues(fileIssues),
                                                  minSeverity), excludeRules)
     IN  [filePath |-> files[k], issueCount |-> Len(issues), issues |-> issues]]

RECURSIVE AllResults(_, _, _)
AllResults(scopes, minSeverity, excludeRules) ==
  IF Len(scopes) = 0 THEN <<>>
  ELSE ScopeResults(Head(scopes).files, Head(scopes).raw, minSeverity, excludeRules)
         \o AllResults(Tail(scopes), minSeverity, excludeRules)

RECURSIVE SumCounts(_)
SumCounts(results) ==
  IF Len(results) = 0 THEN 0 ELSE Head(results).issueCount + SumCounts(Tail(results))

RECURSIVE ConcatIssues(_)
ConcatIssues(results) ==
  IF Len(results) = 0 THEN <<>> ELSE Head(results).issues \o ConcatIssues(Tail(results))

\* handleAnalyzeFiles, lines 60-132: the batch result.
AnalyzeFilesResult(scopes, minSeverity, excludeRules) ==
  LET allResults == AllResults(scopes, minSeverity, excludeRules)
  IN  [files |-> allResults,
       summary |-> [totalFiles |-> Len(allResults),
                    totalIssues |-> SumCounts(allResults),
                    filesWithIssues |->
                      Cardinality({ k \in 1..Len(allResults) : allResults[k].issueCount > 0 }),
                    bySeverity |-> BySeverity(ConcatIssues(allResults))]]

\* The backend's Issues of one file: each has the file's URI, a rule (missing in one)
\* and one of the five severities or none.
FoundIn(path, rule, line, severity) ==
  SevIssue(rule, line, severity) @@ ("fileUri" :> FileUri(path))

IssuePool(path) ==
  { FoundIn(path, "S1", 1, "INFO"), FoundIn(path, "S2", 2, "MINOR"),
    FoundIn(path, "S1", 2, ""), FoundIn(path, "", FileLines, "MAJOR"),
    FoundIn(path, "S2", 1, "CRITICAL"), FoundIn(path, "S1", FileLines, "BLOCKER"),
    FoundIn(path, "S2", FileLines, "BLOCKER") }

RawLists(path) ==
  { <<>> } \cup { <<a>> : a \in IssuePool(path) }
  \cup { <<a, b>> : a \in IssuePool(path), b \in IssuePool(path) }
  \cup { <<a, b, FoundIn(path, "S2", 1, "INFO"), a>> :
           a \in IssuePool(path), b \in IssuePool(path) }

\* The answers for a batch of three files under two project roots: the Issues of the
\* two files of one scope arrive in one list, in any interleaving that keeps each
\* file's own order.
SiblingIssues ==
  <<FoundIn(SiblingPath, "S2", 1, "BLOCKER"), FoundIn(SiblingPath, "S1", 2, "MINOR")>>
OtherIssues ==
  <<FoundIn(OtherPath, "S1", 1, ""), FoundIn(OtherPath, "S2", 1, "INFO"),
    FoundIn(OtherPath, "S1", 2, "CRITICAL")>>

FilterInputs ==
  { [raw |-> raw, minSeverity |-> m, excludeRules |-> r,
     scopes |-> <<[files |-> <<TargetPath, SiblingPath>>,
                   raw |-> IF mixed
                           THEN <<SiblingIssues[1]>> \o raw \o <<SiblingIssues[2]>>
                           ELSE raw \o SiblingIssues],
                  [files |-> <<OtherPath>>, raw |-> OtherIssues]>>] :
      raw \in RawLists(TargetPath),
      m \in {"", "INFO", "MINOR", "MAJOR", "CRITICAL", "BLOCKER"},
      r \in {<<>>, <<"S1">>, <<"S2", "unknown">>},
      mixed \in BOOLEAN }

FilterInit ==
  /\ AtRest
  /\ fnPc = "input"
  /\ fnIn \in FilterInputs
  /\ fnOut = <<>>

\* analyze_file on the target file.
FilterFile ==
  /\ fnPc = "input"
  /\ fnOut' = [file |-> AnalyzeFileResult(fnIn.raw, fnIn.minSeverity, fnIn.excludeRules)]
  /\ fnPc' = "file"
  /\ FnFrame

\* analyze_files on the three files, with the same arguments.
FilterFiles ==
  /\ fnPc = "file"
  /\ fnOut' = [file |-> fnOut.file,
               batch |-> AnalyzeFilesResult(fnIn.scopes, fnIn.minSeverity, fnIn.excludeRules)]
  /\ fnPc' = "applied"
  /\ FnFrame

FilterNext == FilterFile \/ FilterFiles

SpecFilter == FilterInit /\ [][FilterNext]_vars

(***************************************************************************)
(* SpecFix: one Fix with two edits applied to the target file's content.   *)
(***************************************************************************)
\* Fixes of two edits, any span and one of the per-line edits, in either order, in
\* one file-edit group or in two.
TwoEditFixes ==
  { Fix("two", IF grouped THEN <<TextEdits(pair)>>
               ELSE <<TextEdits(<<pair[1]>>), TextEdits(<<pair[2]>>)>>) :
      pair \in { <<e1, e2>> : e1 \in SimpleEdits, e2 \in ProbeEdits }
               \cup { <<e2, e1>> : e1 \in SimpleEdits, e2 \in ProbeEdits },
      grouped \in BOOLEAN }

FixInit ==
  /\ AtRest
  /\ fnPc = "input"
  /\ fnIn \in { [content |-> File, quickFix |-> f] : f \in TwoEditFixes }
  /\ fnOut = <<>>

\* The try block of one Issue without the file access: split, edit, join.
FixApply ==
  /\ fnPc = "input"
  /\ fnOut' = ApplyFix(fnIn.content, fnIn.quickFix)
  /\ fnPc' = "applied"
  /\ FnFrame

FixNext == FixApply

SpecFix == FixInit /\ [][FixNext]_vars

(***************************************************************************)
(* SpecPlan: the planner (filter and sort) on a list of raw Issues.        *)
(***************************************************************************)
PlanLen == 4

\* What the Issue at position i of the analysis result may be: its rule names the
\* position; with a Fix and no line, a line in its textRange or a flat startLine, or
\* without a Fix.
PlanIssues(i) ==
  LET rule == "R" \o ToString(i)
      fix  == <<FixA>>
  IN  { NoLineIssue(rule, fix), Issue(rule, 3, fix), Issue(rule, 5, fix),
        LegacyLineIssue(rule, 5, fix), Issue(rule, 10, fix), Issue(rule, 15, fix),
        Issue(rule, 10, <<>>), NoLineIssue(rule, <<>>) }

RECURSIVE PlanListsOf(_)
PlanListsOf(n) ==
  IF n = 0 THEN { <<>> }
  ELSE { Append(l, issue) : l \in PlanListsOf(n - 1), issue \in PlanIssues(n) }

PlanInputs == UNION { PlanListsOf(n) : n \in 0..PlanLen }

PlanInit ==
  /\ AtRest
  /\ fnPc = "input"
  /\ fnIn \in PlanInputs
  /\ fnOut = <<>>

\* handleApplyAllQuickFixes, lines 31-57: filter, then sort a copy; the arrays the
\* handler holds afterwards.
PlanApply ==
  /\ fnPc = "input"
  /\ fnOut' = [rawIssues |-> fnIn,
               issuesWithQuickFixes |-> FilterIssues(fnIn),
               sortedIssues |-> SortIssues(FilterIssues(fnIn))]
  /\ fnPc' = "applied"
  /\ FnFrame

PlanNext == PlanApply

SpecPlan == PlanInit /\ [][PlanNext]_vars

(***************************************************************************)
(* SpecAgree: analyze_file reports the Issues of an analysis result, then  *)
(* the apply tools look at the same result of the unchanged file.          *)
(***************************************************************************)
AgreeInit ==
  /\ AtRest
  /\ fnPc = "input"
  /\ fnIn \in PlanInputs
  /\ fnOut = <<>>

\* handleAnalyzeFile without minSeverity and excludeRules: the Issues it reports.
AgreeAnalyzeFile ==
  /\ fnPc = "input"
  /\ fnOut' = [reported |-> AnalyzeFileResult(fnIn, "", <<>>).issues]
  /\ fnPc' = "reported"
  /\ FnFrame

\* For each reported Issue: what handleApplyQuickFix finds when called with the
\* reported line and rule (part_003 lines 28-31), and the line handleApplyAllQuickFixes
\* puts in its report for the Issue (apply-all-quick-fixes.ts lines 64 and 111-115).
AgreeApply ==
  /\ fnPc = "reported"
  /\ fnOut' = [reported |-> fnOut.reported,
               found |-> [i \in 1..Len(fnIn) |->
                            FindIssue(fnIn, fnOut.reported[i].line, fnOut.reported[i].rule)],
               shown |-> [i \in 1..Len(fnIn) |-> IssueLine(fnIn[i])]]
  /\ fnPc' = "applied"
  /\ FnFrame

AgreeNext ==
  \/ AgreeAnalyzeFile
  \/ AgreeApply

SpecAgree == AgreeInit /\ [][AgreeNext]_vars

(***************************************************************************)
(* SpecBytes: one apply step on the bytes of the file, for a Fix that has  *)
(* no text edit.  readFileSync(filePath, 'utf-8') decodes the bytes to a   *)
(* string, writeFileSync(filePath, fileContent, 'utf-8') encodes one.      *)
(***************************************************************************)
MaxBytes == 4

\* The bytes of the files: "a", LF, CR, the two bytes of U+00E9 in UTF-8 (C3 A9), and
\* E9, which is U+00E9 in ISO-8859-1 and starts a sequence of three bytes in UTF-8.
FileBytes == {97, 10, 13, 195, 169, 233}

RECURSIVE ByteFilesOf(_)
ByteFilesOf(n) ==
  IF n = 0 THEN { <<>> }
  ELSE { Append(f, b) : f \in ByteFilesOf(n - 1), b \in FileBytes }

\* A character of a string, named by its code point; 10 is the newline of Split and Join.
CharOf(cp) == IF cp = 10 THEN NL ELSE "U+" \o ToString(cp)
ReplacementChar == CharOf(65533)
IsContinuation(b) == b >= 128 /\ b <= 191

\* Decoding as UTF-8: a byte or a truncated sequence that is no UTF-8 becomes U+FFFD.
RECURSIVE Utf8Decode(_)
Utf8Decode(bytes) ==
  IF Len(bytes) = 0 THEN <<>>
  ELSE LET b    == bytes[1]
           n    == Len(bytes)
           from(k) == Utf8Decode(SubSeq(bytes, k, n))
       IN  IF b < 128 THEN <<CharOf(b)>> \o from(2)
           ELSE IF b >= 194 /\ b <= 223
           THEN IF n >= 2 /\ IsContinuation(bytes[2])
                THEN <<CharOf((b - 192) * 64 + (bytes[2] - 128))>> \o from(3)
                ELSE <<ReplacementChar>> \o from(2)
           ELSE IF b >= 225 /\ b <= 236
           THEN IF n >= 3 /\ IsContinuation(bytes[2]) /\ IsContinuation(bytes[3])
                THEN <<CharOf((b - 224) * 4096 + (bytes[2] - 128) * 64 + (bytes[3] - 128))>>
                       \o from(4)
                ELSE IF n >= 2 /\ IsContinuation(bytes[2])
                THEN <<ReplacementChar>> \o from(3)
                ELSE <<ReplacementChar>> \o from(2)
           ELSE <<ReplacementChar>> \o from(2)

\* The code points the strings of the model are made of.
CodePoints ==
  {97, 10, 13, 65533} \cup { (b - 192) * 64 + (c - 128) : b \in {195}, c \in {169} }
    \cup { (b - 224) * 4096 + (c - 128) * 64 + (d - 128) : b \in {233}, c \in {169}, d \in {169} }
CodePointOf(ch) == CHOOSE cp \in CodePoints : CharOf(cp) = ch

\* Encoding as UTF-8.
EncodeChar(cp) ==
  IF cp < 128 THEN <<cp>>
  ELSE IF cp < 2048 THEN <<192 + (cp \div 64), 128 + (cp % 64)>>
  ELSE <<224 + (cp \div 4096), 128 + ((cp \div 64) % 64), 128 + (cp % 64)>>

RECURSIVE Utf8Encode(_)
Utf8Encode(content) ==
  IF Len(content) = 0 THEN <<>>
  ELSE EncodeChar(CodePointOf(content[1])) \o Utf8Encode(Tail(content))

\* Fixes that contribute no text edit: no file edits at all, an empty list of
\* file edits, file-edit groups without textEdits or with an empty textEdits.
EditlessFixes ==
  { BareFix("bare"), Fix("empty", <<>>), LegacyFix("legacy", <<>>),
    Fix("group", <<NoTextEdits>>), Fix("groups", <<NoTextEdits, TextEdits(<<>>)>>) }

BytesInit ==
  /\ AtRest
  /\ fnPc = "input"
  /\ fnIn \in { [bytes |-> f, quickFix |-> q, tool |-> t] :
                  f \in UNION { ByteFilesOf(n) : n \in 0..MaxBytes },
                  q \in EditlessFixes, t \in {"apply_all", "apply_one"} }
  /\ fnOut = <<>>

\* One step of the apply loop (apply-all-quick-fixes.ts lines 70-115) or the step of
\* handleApplyQuickFix (part_003 lines 63-121) on the bytes of the file.
BytesStep ==
  /\ fnPc = "input"
  /\ LET content == Utf8Decode(fnIn.bytes)
         r == IF fnIn.tool = "apply_all"
              THEN IssueStep(content, Issue("S1", 1, <<fnIn.quickFix>>), "ok")
              ELSE QuickFixStep(content, fnIn.quickFix, "ok")
     IN  fnOut' = [applied |-> r.ok,
                   bytes |-> IF r.ok THEN Utf8Encode(r.content) ELSE fnIn.bytes]
  /\ fnPc' = "applied"
  /\ FnFrame

BytesNext == BytesStep

SpecBytes == BytesInit /\ [][BytesNext]_vars

(***************************************************************************)
(* SpecScope: getOrCreateScope and the notifier over several project       *)
(* roots.  fnIn is the file of the running handler, fnOut what its         *)
(* notifier has sent.                                                      *)
(***************************************************************************)
\* Directories of the files the tools are called with.
ScopeRoots == {"/proj", "/lib", "/work/p94953", "/work/p134040"}
ScopePaths == { Path(root, name) : root \in ScopeRoots, name \in {"a.ts", "b.ts"} }

ScopeInit ==
  /\ AtRest
  /\ fnPc = "scopes" /\ fnIn = <<>> /\ fnOut = <<>>

ScopeFrame ==
  UNCHANGED <<fnPc, edVars, parVars, callVars, lastCall, resVars, fileExists, disk,
              backendIssues, backendContent>>

\* await ensureSloopBridge(): the first handler connects the bridge.
ScopeEnsureBridge ==
  /\ sloopBridge = "none"
  /\ sloopBridge' = "connected"
  /\ ScopeFrame
  /\ UNCHANGED <<fnIn, fnOut, scopeMap, backendScopes>>

\* const scopeId = getOrCreateScope(filePath) of a handler that has the bridge.
ScopeGetOrCreate ==
  /\ sloopBridge = "connected"
  /\ \E path \in ScopePaths :
       LET r == GetOrCreateScopeFor(path, scopeMap, backendScopes, sloopBridge)
       IN  /\ scopeMap' = r.map
           /\ backendScopes' = r.registered
           /\ fnIn' = path
           /\ fnOut' = <<>>
  /\ ScopeFrame
  /\ UNCHANGED sloopBridge

\* await notifyFileSystemChanged(filePath, scopeId) of that handler.
ScopeNotify ==
  /\ fnIn # <<>> /\ fnOut = <<>>
  /\ \E outcome \in {"ok", "readFails"} :
       fnOut' = Notifications(outcome, fnIn,
                              GetOrCreateScopeFor(fnIn, scopeMap, backendScopes, sloopBridge).id,
                              scopeMap, disk)
  /\ ScopeFrame
  /\ UNCHANGED <<fnIn, sloopBridge, scopeMap, backendScopes>>

ScopeNext ==
  \/ ScopeEnsureBridge
  \/ ScopeGetOrCreate
  \/ ScopeNotify

SpecScope == ScopeInit /\ [][ScopeNext]_vars

(***************************************************************************)
(* SpecBridge: calls of ensureSloopBridge that may overlap.  calls holds   *)
(* the callers, fnOut the SloopBridge instances that were constructed,     *)
(* sloopBridge the instance state.ts holds ("none" for null).              *)
(***************************************************************************)
MaxEnsures == 4

\* new SloopBridge(PACKAGE_ROOT): the n-th instance of the process.
BridgeName(n) == "bridge" \o ToString(n)

BridgeInit ==
  /\ AtRest
  /\ fnPc = "bridges" /\ fnIn = <<>> /\ fnOut = <<>>

BridgeFrame ==
  UNCHANGED <<fnPc, fnIn, edVars, turns, callVars, lastCall, resVars, fileExists, disk, scopeMap,
              backendScopes, backendIssues, backendContent>>

\* ensureSloopBridge() is called, lines 96-115: the stored bridge is returned if there
\* is one; otherwise the plugins directory is looked for, a bridge is constructed and
\* connect() is awaited.
EnsureCalled ==
  /\ Len(calls) < MaxEnsures
  /\ IF sloopBridge # "none"
     THEN /\ calls' = Append(calls, [pc |-> "returned", bridge |-> sloopBridge])
          /\ UNCHANGED fnOut
     ELSE \E pluginsExist \in BOOLEAN :
            IF ~pluginsExist
            THEN /\ calls' = Append(calls, [pc |-> "BackendNotFound", bridge |-> "none"])
                 /\ UNCHANGED fnOut
            ELSE LET bridge == BridgeName(Len(fnOut) + 1)
                 IN  /\ calls' = Append(calls, [pc |-> "connecting", bridge |-> bridge])
                     /\ fnOut' = Append(fnOut, [name |-> bridge, state |-> "connecting"])
  /\ UNCHANGED sloopBridge
  /\ BridgeFrame

\* await bridge.connect() resolves, lines 115-118: setSloopBridge(bridge), return it.
ConnectResolves(c) ==
  /\ calls[c].pc = "connecting"
  /\ sloopBridge' = calls[c].bridge
  /\ calls' = [calls EXCEPT ![c].pc = "returned"]
  /\ fnOut' = [k \in 1..Len(fnOut) |->
                IF fnOut[k].name = calls[c].bridge
                THEN [fnOut[k] EXCEPT !.state = "connected"] ELSE fnOut[k]]
  /\ BridgeFrame

\* await bridge.connect() rejects, lines 119-125: a SloopError, nothing is stored.
ConnectRejects(c) ==
  /\ calls[c].pc = "connecting"
  /\ calls' = [calls EXCEPT ![c].pc = "BackendStartFailed", ![c].bridge = "none"]
  /\ fnOut' = [k \in 1..Len(fnOut) |->
                IF fnOut[k].name = calls[c].bridge
                THEN [fnOut[k] EXCEPT !.state = "failed"] ELSE fnOut[k]]
  /\ UNCHANGED sloopBridge
  /\ BridgeFrame

BridgeNext ==
  \/ EnsureCalled
  \/ \E c \in 1..Len(calls) : ConnectResolves(c)
  \/ \E c \in 1..Len(calls) : ConnectRejects(c)

SpecBridge == BridgeInit /\ [][BridgeNext]_vars

(***************************************************************************)
(* SpecPar: several apply calls in flight at once on the target file.      *)
(* The handlers are async functions on one event loop: a call runs from    *)
(* one await to the next without interruption, and another call can run    *)
(* only while it waits.  Each action below is one such run.  calls holds   *)
(* one record per call:                                                    *)
(*   [pc, tool, line, rule, answered, issues, analysed, plan, next,        *)
(*    applied, failed, result]                                             *)
(* answered says that the backend has computed the answer to the pending   *)
(* analyze request; issues is the answer to the first request, computed    *)
(* for the file content analysed.                                          *)
(***************************************************************************)
MaxCalls == 2

InsertFix == OneEditFix("insert", Edit(1, 1, 1, 1, <<"X">>))
JoinFix == OneEditFix("join", Edit(1, LineWidth, 2, 1, <<>>))
TailFix == OneEditFix("tail", Edit(FileLines, 1, FileLines, 1, <<"Y">>))

\* What the backend reports for the file the calls start from.
ParLists ==
  { <<Issue("S2", FileLines, <<>>)>>,
    <<Issue("S1", 1, <<InsertFix>>)>>,
    <<Issue("S1", 1, <<JoinFix>>), Issue("S2", FileLines, <<TailFix>>)>>,
    <<Issue("S1", 1, <<InsertFix>>), Issue("S2", FileLines, <<OneEditFix("bad", BadEdit)>>)>> }

\* The calls that arrive: apply_all, or apply_quick_fix for the Issue of the last line.
ParArgs == { <<"apply_all", 0, "none">>, <<"apply_one", FileLines, "S2">> }

\* turns records what the handlers do with the file: "analyzed" (a first analysis has
\* returned to its handler), "read" and "write", each with the call and the content.
Turn(c, ev, content) == [call |-> c, ev |-> ev, content |-> content]

\* A handler that has returned or thrown: its locals are gone, its result stays.
Finished(call, kind) ==
  [pc |-> "done", tool |-> call.tool, line |-> call.line, rule |-> call.rule,
   answered |-> FALSE, issues |-> <<>>, analysed |-> <<>>, plan |-> <<>>, next |-> 1,
   applied |-> <<>>, failed |-> <<>>, result |-> kind]

NewCall(t, line, rule, exists) ==
  LET call == [pc |-> "bridge", tool |-> t, line |-> line, rule |-> rule,
               answered |-> FALSE, issues |-> <<>>, analysed |-> <<>>, plan |-> <<>>,
               next |-> 1, applied |-> <<>>, failed |-> <<>>, result |-> "none"]
  IN  IF exists THEN call ELSE Finished(call, "FileNotFound")

ParInit ==
  /\ edPc = "unused" /\ edLines = <<>> /\ edEdit = Edit(NULL, NULL, NULL, NULL, <<>>)
  /\ edOut = [ok |-> FALSE, lines |-> <<>>]
  /\ \E l \in ParLists :
       /\ disk = File
       /\ backendIssues = l
       /\ backendContent = File
  /\ fileExists \in BOOLEAN
  /\ sloopBridge = "none"
  /\ scopeMap = <<>>
  /\ backendScopes = <<>>
  /\ pc = "idle" /\ tool = "none" /\ argLine = 0 /\ argRule = "none"
  /\ rawIssues = <<>> /\ sortedIssues = <<>> /\ idx = 0
  /\ appliedFixes = <<>> /\ failedFixes = <<>> /\ remainingIssues = <<>>
  /\ result = NoResult
  /\ snapshot = File /\ log = <<>>
  /\ argFiles = <<>> /\ filesByScope = <<>>
  /\ lastCall = [tool |-> "none", kind |-> "none", total |-> 0, content |-> <<>>]
  /\ sessionResults = <<>> /\ batchResults = <<>>
  /\ calls = <<>> /\ turns = <<>>
  /\ fnPc = "unused" /\ fnIn = <<>> /\ fnOut = <<>>

ParFrame == UNCHANGED <<edVars, fnVars, callVars, lastCall, resVars, fileExists>>

\* A request arrives while other calls may be waiting: lines 8-23 of a handler, up to
\* its first await.
ParInvoke ==
  /\ Len(calls) < MaxCalls
  /\ \E args \in ParArgs :
       calls' = Append(calls, NewCall(args[1], args[2], args[3], fileExists))
  /\ UNCHANGED turns
  /\ ParFrame
  /\ UNCHANGED <<disk, sloopBridge, scopeMap, backendScopes, backendIssues, backendContent>>

\* await ensureSloopBridge() settles; the handler runs on to getOrCreateScope and
\* sends the analyze request: lines 23-25.
ParBridge(c) ==
  /\ calls[c].pc = "bridge"
  /\ \E outcome \in {"connected", "pluginsMissing", "connectFailed"} :
       /\ sloopBridge = "connected" => outcome = "connected"
       /\ IF outcome = "connected"
          THEN LET r == GetOrCreateScopeFor(TargetPath, scopeMap, backendScopes, "connected")
               IN  /\ sloopBridge' = "connected"
                   /\ scopeMap' = r.map
                   /\ backendScopes' = r.registered
                   /\ calls' = [calls EXCEPT ![c].pc = "analyze"]
          ELSE /\ calls' = [calls EXCEPT ![c] =
                              Finished(calls[c], IF outcome = "pluginsMissing"
                                                 THEN "BackendNotFound"
                                                 ELSE "BackendStartFailed")]
               /\ UNCHANGED <<sloopBridge, scopeMap, backendScopes>>
  /\ ParFrame
  /\ UNCHANGED <<turns, disk, backendIssues, backendContent>>

\* The backend, a process of its own, analyses the file as it is now and has its
\* answer to a pending request ready.
ParBackend(c) ==
  /\ calls[c].pc \in {"analyze", "reanalyze"}
  /\ ~calls[c].answered
  /\ \E issues \in AnalysisResults :
       /\ calls' = IF calls[c].pc = "analyze"
                   THEN [calls EXCEPT ![c].answered = TRUE, ![c].issues = issues,
                                      ![c].analysed = disk]
                   ELSE [calls EXCEPT ![c].answered = TRUE]
       /\ backendIssues' = issues
       /\ backendContent' = disk
  /\ ParFrame
  /\ UNCHANGED <<turns, disk, sloopBridge, scopeMap, backendScopes>>

\* bridge.analyzeFilesAndTrack rejects.
ParAnalysisFails(c) ==
  /\ calls[c].pc \in {"analyze", "reanalyze"}
  /\ calls' = [calls EXCEPT ![c] = Finished(calls[c], "AnalysisFailed")]
  /\ ParFrame
  /\ UNCHANGED <<turns, envVars>>

\* rawResult.rawIssues || []: the Issues a handler works with are those of the answer
\* it received, whatever has happened to the file since the backend computed them.
AnswerIfCurrent(call, content) == IF call.analysed = content THEN call.issues ELSE <<>>
AnswerFor(call, content) == call.issues

\* The number of iterations of the apply loop (lines 63-126) that run before the
\* handler next awaits, of the iterations that are left: the loop body has no await.
OneStepPerTurn(left) == 1
StepsPerTurn(left) == left

\* Iterations from..to of the apply loop of call c on the file content.
RECURSIVE RunSteps(_, _, _, _, _, _)
RunSteps(c, content, plan, from, to, ios) ==
  IF from > to THEN [content |-> content, applied |-> <<>>, failed |-> <<>>, turns |-> <<>>]
  ELSE LET issue == plan[from]
           r     == IssueStep(content, issue, ios[from])
           rest  == RunSteps(c, r.content, plan, from + 1, to, ios)
       IN  [content |-> rest.content,
            applied |-> (IF r.ok THEN <<from>> ELSE <<>>) \o rest.applied,
            failed  |-> (IF r.ok THEN <<>> ELSE <<from>>) \o rest.failed,
            turns   |-> <<Turn(c, "read", content)>>
                        \o (IF r.ok THEN <<Turn(c, "write", r.content)>> ELSE <<>>)
                        \o rest.turns]

\* handleApplyAllQuickFixes, lines 25-126: the first analysis returns; filter, sort
\* and the apply loop, up to the call of the notifier.
ParApplyAll(c) ==
  /\ calls[c].tool = "apply_all"
  /\ \/ calls[c].pc = "analyze" /\ calls[c].answered
     \/ calls[c].pc = "loop"
  /\ LET call == calls[c]
         plan == IF call.pc = "loop" THEN call.plan
                 ELSE SortIssues(FilterIssues(AnswerFor(call, disk)))
         n    == Len(plan)
         to   == call.next + StepsPerTurn(n - call.next + 1) - 1
     IN  IF PlanIsEmpty(plan)
         THEN /\ calls' = [calls EXCEPT ![c] = Finished(calls[c], "NoQuickFixes")]
              /\ turns' = Append(turns, Turn(c, "analyzed", disk))
              /\ UNCHANGED disk
         ELSE \E ios \in [1..n -> {"ok", "writeError"}] :
                LET r == RunSteps(c, disk, plan, call.next, to, ios)
                IN  /\ \A k \in 1..n : (k < call.next \/ k > to) => ios[k] = "ok"
                    /\ disk' = r.content
                    /\ calls' = [calls EXCEPT
                                   ![c].pc = IF to >= n THEN "notify" ELSE "loop",
                                   ![c].plan = plan,
                                   ![c].next = to + 1,
                                   ![c].applied = call.applied \o r.applied,
                                   ![c].failed = call.failed \o r.failed]
                    /\ turns' = turns
                         \o (IF call.pc = "analyze" THEN <<Turn(c, "analyzed", disk)>> ELSE <<>>)
                         \o r.turns
  /\ ParFrame
  /\ UNCHANGED <<sloopBridge, scopeMap, backendScopes, backendIssues, backendContent>>

\* handleApplyQuickFix, lines 24-121: the analysis returns; find the Issue, apply its
\* first Fix and write, up to the call of the notifier.
ParApplyOne(c) ==
  /\ calls[c].tool = "apply_one"
  /\ calls[c].pc = "analyze" /\ calls[c].answered
  /\ LET call   == calls[c]
         issues == AnswerFor(call, disk)
         t      == FindIssue(issues, call.line, call.rule)
     IN  IF t = 0
         THEN /\ calls' = [calls EXCEPT ![c] = Finished(calls[c], "IssueNotFound")]
              /\ turns' = Append(turns, Turn(c, "analyzed", disk))
              /\ UNCHANGED disk
         ELSE IF Len(issues[t].quickFixes) = 0
         THEN /\ calls' = [calls EXCEPT ![c] = Finished(calls[c], "NoQuickFixAvailable")]
              /\ turns' = Append(turns, Turn(c, "analyzed", disk))
              /\ UNCHANGED disk
         ELSE \E io \in {"ok", "debugWriteError", "readError"} :
                LET r == QuickFixStep(disk, FirstFix(issues[t]), io)
                IN  /\ disk' = r.content
                    /\ calls' = IF r.ok
                                THEN [calls EXCEPT ![c].pc = "notify",
                                                   ![c].plan = <<issues[t]>>,
                                                   ![c].next = 2,
                                                   ![c].applied = <<1>>]
                                ELSE [calls EXCEPT ![c] = Finished(calls[c], r.error)]
                    /\ turns' = turns
                         \o <<Turn(c, "analyzed", disk)>>
                         \o (IF io = "debugWriteError" THEN <<>> ELSE <<Turn(c, "read", disk)>>)
                         \o (IF r.ok THEN <<Turn(c, "write", r.content)>> ELSE <<>>)
  /\ ParFrame
  /\ UNCHANGED <<sloopBridge, scopeMap, backendScopes, backendIssues, backendContent>>

\* await notifyFileSystemChanged(filePath, scopeId) settles: the notifications have
\* been sent, or something failed and was swallowed.
ParNotify(c) ==
  /\ calls[c].pc = "notify"
  /\ \E outcome \in {"ok", "openFails"} :
       calls' = [calls EXCEPT ![c].pc = AfterNotify(outcome)]
  /\ ParFrame
  /\ UNCHANGED <<turns, envVars>>

\* The 500 ms timer fires: apply_all sends its second analyze request (line 134),
\* apply_quick_fix returns (lines 133-140).
ParSettle(c) ==
  /\ calls[c].pc = "settle"
  /\ calls' = IF calls[c].tool = "apply_all"
              THEN [calls EXCEPT ![c].pc = "reanalyze", ![c].answered = FALSE]
              ELSE [calls EXCEPT ![c] = Finished(calls[c], "QuickFixApplied")]
  /\ ParFrame
  /\ UNCHANGED <<turns, envVars>>

\* handleApplyAllQuickFixes, lines 134-191: the second analysis returns; the report.
ParReanalyzed(c) ==
  /\ calls[c].pc = "reanalyze" /\ calls[c].answered
  /\ calls' = [calls EXCEPT ![c] = Finished(calls[c], "QuickFixesApplied")]
  /\ ParFrame
  /\ UNCHANGED <<turns, envVars>>

ParNext ==
  \/ ParInvoke
  \/ \E c \in 1..Len(calls) :
       \/ ParBridge(c)
       \/ ParBackend(c)
       \/ ParAnalysisFails(c)
       \/ ParApplyAll(c)
       \/ ParApplyOne(c)
       \/ ParNotify(c)
       \/ ParSettle(c)
       \/ ParReanalyzed(c)

SpecPar == ParInit /\ [][ParNext]_vars

(***************************************************************************)
(* Properties of the applier (SpecEdit).                                   *)
(***************************************************************************)
\* The edit of SpecEdit names an existing start line and explicit columns.
EdExplicit ==
  /\ edEdit.startLine \in 1..Len(edLines)
  /\ edEdit.endLine \in 1..Len(edLines)
  /\ edEdit.startLineOffset # NULL
  /\ edEdit.endLineOffset # NULL

\* C7: a same-line edit with 0 <= startCol <= endCol <= length of the target line
\* (empty spans and endCol = 0 included) sets the target line to its first startCol
\* characters + replacement + its characters from endCol onward.
C7_SameLineEditReplacesSpan ==
  (/\ edPc = "applied"
   /\ EdExplicit
   /\ edEdit.endLine = edEdit.startLine
   /\ edEdit.startLineOffset <= edEdit.endLineOffset
   /\ edEdit.endLineOffset <= Len(edLines[edEdit.startLine]))
  => LET target == edLines[edEdit.startLine]
     IN  /\ edOut.ok
         /\ Len(edOut.lines) = Len(edLines)
         /\ edOut.lines[edEdit.startLine] =
              SubSeq(target, 1, edEdit.startLineOffset) \o edEdit.newText
                \o SubSeq(target, edEdit.endLineOffset + 1, Len(target))

\* C8: an edit with startLine < endLine and endCol in 0..length of the end line
\* replaces buffer entries startLine..endLine by the single entry (start line's first
\* startCol characters) + replacement + (end line's characters from endCol onward);
\* the entries outside the range keep their content and order.
C8_MultiLineEditSplices ==
  (/\ edPc = "applied"
   /\ EdExplicit
   /\ edEdit.startLine < edEdit.endLine
   /\ edEdit.startLineOffset <= Len(edLines[edEdit.startLine])
   /\ edEdit.endLineOffset <= Len(edLines[edEdit.endLine]))
  => LET first == edLines[edEdit.startLine]
         last  == edLines[edEdit.endLine]
     IN  /\ edOut.ok
         /\ edOut.lines =
              SubSeq(edLines, 1, edEdit.startLine - 1)
                \o << SubSeq(first, 1, edEdit.startLineOffset) \o edEdit.newText
                        \o SubSeq(last, edEdit.endLineOffset + 1, Len(last)) >>
                \o SubSeq(edLines, edEdit.endLine + 1, Len(edLines))

\* C26: an edit whose end line is its start line, or is not given, leaves the
\* number of lines and every line but the target as they were, whatever its columns
\* and its replacement; removing columns 2 to 9 of "  return;" leaves "  " between
\* the two lines around it.
C26_SameLineEditTouchesOneLine ==
  (/\ edPc = "applied"
   /\ edEdit.endLine = NULL \/ edEdit.endLine = Or(edEdit.startLine, 1))
  => /\ Len(edOut.lines) = Len(edLines)
     /\ \A i \in 1..Len(edLines) : i # Or(edEdit.startLine, 1) => edOut.lines[i] = edLines[i]
     /\ (edLines = ReturnBuffer /\ edEdit = ReturnEdit)
          => edOut.ok /\ edOut.lines[2] = <<" ", " ">>

C26_Witness ==
  /\ edPc = "applied"
  /\ edLines = ReturnBuffer /\ edEdit = ReturnEdit
  /\ edOut.ok
  /\ edOut.lines = << ReturnBuffer[1], <<" ", " ">>, ReturnBuffer[3] >>

\* C27: whenever the bridge has been sent the filesystem-changed notification of a
\* call, the mark-file-open notification for the same file and scope was sent before
\* it and none after it; the notification has no added and no removed files and
\* exactly one changed file, the target, with the scope id getOrCreateScope returned
\* to the handler, isUserDefined set, and as content the content of the file on disk,
\* which is the content the last successful write of the call left (and the content
\* that was analysed when the call wrote nothing).
C27_OpenThenChanged ==
  \A u \in { p \in 1..Len(log) : log[p].ev = "didUpdateFileSystem" } :
    LET opens  == { p \in 1..Len(log) : log[p].ev = "didOpenFile" }
        writes == { p \in 1..u : log[p].ev = "write" }
        dto    == log[u].changedFiles[1]
    IN  /\ opens # {}
        /\ \A o \in opens :
             /\ o < u
             /\ log[o].fileUri = FileUri(TargetPath)
             /\ log[o].configurationScopeId = dto.configScopeId
        /\ log[u].addedFiles = <<>> /\ log[u].removedFiles = <<>>
        /\ Len(log[u].changedFiles) = 1
        /\ dto.uri = FileUri(TargetPath) /\ dto.fsPath = TargetPath
        /\ \E g \in 1..u : log[g].ev = "getOrCreateScope"
        /\ \A g \in 1..u : log[g].ev = "getOrCreateScope" => dto.configScopeId = log[g].content
        /\ dto.isUserDefined = TRUE
        /\ dto.content = disk
        /\ writes = {} => \A a \in 1..u : log[a].ev = "analyze" => dto.content = log[a].content
        /\ \A w \in writes : (\A v \in writes : v <= w) => dto.content = log[w].content

\* An apply_all call that wrote the file twice and then sent both notifications: the
\* content it sent is that of the second write and differs from that of the first.
C27_Witness ==
  /\ tool = "apply_all"
  /\ \E u \in 1..Len(log) :
       /\ log[u].ev = "didUpdateFileSystem"
       /\ log[u - 1].ev = "didOpenFile"
       /\ \E v \in 1..u : \E w \in 1..u :
            /\ v < w /\ log[v].ev = "write" /\ log[w].ev = "write"
            /\ log[v].content # log[w].content
            /\ log[u].changedFiles[1].content = log[w].content

(***************************************************************************)
(* Properties of the apply tools (Spec).                                   *)
(***************************************************************************)
LoopFinished == tool = "apply_all" /\ pc \in {"notify", "settle", "reanalyze"}

\* Offset of (1-based line l, column c) in the content the lines are split from.
RECURSIVE OffsetOf(_, _, _)
OffsetOf(lines, l, c) ==
  IF l <= 1 THEN c ELSE Len(lines[1]) + 1 + OffsetOf(Tail(lines), l - 1, c)

\* The edit has explicit coordinates that lie inside the buffer, start before end.
WellFormed(lines, e) ==
  /\ e.startLine \in 1..Len(lines)
  /\ e.endLine \in e.startLine..Len(lines)
  /\ e.startLineOffset \in 0..Len(lines[e.startLine])
  /\ e.endLineOffset \in 0..Len(lines[e.endLine])
  /\ OffsetOf(lines, e.startLine, e.startLineOffset)
       <= OffsetOf(lines, e.endLine, e.endLineOffset)

SpanOf(lines, e) ==
  [from |-> OffsetOf(lines, e.startLine, e.startLineOffset),
   to   |-> OffsetOf(lines, e.endLine, e.endLineOffset),
   text |-> e.newText]

\* The first-Fix edits of the planned Issues, in plan order.
RECURSIVE PlannedEditsFrom(_)
PlannedEditsFrom(k) ==
  IF k > Len(sortedIssues) THEN <<>>
  ELSE EditSequence(FileEditsOf(FirstFix(sortedIssues[k]))) \o PlannedEditsFrom(k + 1)

PlannedEdits == PlannedEditsFrom(1)

\* No two edits share a character of the snapshot or a start position.
NonOverlapping(lines, edits) ==
  \A i, j \in 1..Len(edits) :
    i < j => LET a == SpanOf(lines, edits[i])
                 b == SpanOf(lines, edits[j])
             IN  a.from # b.from /\ (a.to <= b.from \/ b.to <= a.from)

\* All spans replaced at once: from the last span of the content to the first.
RECURSIVE ApplySpans(_, _)
ApplySpans(content, spans) ==
  IF spans = {} THEN content
  ELSE LET m == CHOOSE x \in spans : \A y \in spans : y.from <= x.from
       IN  ApplySpans(SubSeq(content, 1, m.from) \o m.text
                        \o SubSeq(content, m.to + 1, Len(content)),
                      spans \ {m})

Simultaneous(content, edits) ==
  ApplySpans(content, { SpanOf(Split(content), edits[i]) : i \in 1..Len(edits) })

\* C1: when all planned Issues succeed and their first-Fix edits are pairwise
\* non-overlapping, the final file content equals all those edits applied at once
\* at their original coordinates in the content the call started from.  Stated for
\* edits whose end column is not 0: what the applier does with an end column of 0
\* is the subject of C7 and C8, and the order of application alone decides here.
C1_SequentialEqualsSimultaneous ==
  (/\ LoopFinished
   /\ failedFixes = <<>>
   /\ \A i \in 1..Len(PlannedEdits) :
        /\ WellFormed(Split(snapshot), PlannedEdits[i])
        /\ PlannedEdits[i].endLineOffset # 0
   /\ NonOverlapping(Split(snapshot), PlannedEdits))
  => disk = Simultaneous(snapshot, PlannedEdits)

\* C2: the planned Issues are attempted in non-increasing start-line order: no
\* attempt and no write follows an attempt at a smaller line; the Issues at lines
\* 3, 4, 5, 7, 11 are attempted in the order 11, 7, 5, 4, 3.
AttemptedLines ==
  LET attempts == SelectSeq(log, LAMBDA e : e.ev = "attempt")
  IN  [k \in 1..Len(attempts) |-> attempts[k].line]

C2_DescendingAttemptOrder ==
  tool = "apply_all" =>
    /\ \A p, q \in 1..Len(log) :
         (p < q /\ log[p].ev = "attempt" /\ log[q].ev \in {"attempt", "write"})
           => log[p].line >= log[q].line
    /\ (LoopFinished /\ rawIssues = ExampleIssues) => AttemptedLines = <<11, 7, 5, 4, 3>>

C2_Witness ==
  /\ LoopFinished
  /\ rawIssues = ExampleIssues
  /\ Len(appliedFixes) = 5
  /\ disk # snapshot

\* The Issue an event of the log is about.
IssueOf(e) == IF tool = "apply_all" THEN sortedIssues[e.idx] ELSE rawIssues[e.idx]

HasFix(issue) == Len(issue.quickFixes) > 0
HasEdits(issue) == HasFix(issue) /\ Len(EditSequence(FileEditsOf(Head(issue.quickFixes)))) > 0

\* C3: every Issue that is attempted has a non-empty Fix list and a non-empty edit
\* list in its first Fix; an Issue whose Fix carries no text edits is never
\* attempted, never written and never counted as applied.
C3_OnlyIssuesWithEdits ==
  tool = "apply_all" =>
    /\ \A p \in 1..Len(log) :
         log[p].ev \in {"attempt", "write"} => HasEdits(IssueOf(log[p]))
    /\ \A k \in 1..Len(appliedFixes) : HasEdits(sortedIssues[appliedFixes[k].idx])

\* C3 as amended: every Issue that is attempted has a non-empty Fix list; an Issue
\* with no Fix is never planned, attempted, written or counted as applied, and
\* every Issue with a Fix is planned.
C3_OnlyIssuesWithFixes ==
  tool = "apply_all" =>
    /\ \A k \in 1..Len(sortedIssues) : HasFix(sortedIssues[k])
    /\ \A p \in 1..Len(log) :
         log[p].ev \in {"attempt", "write", "failed"} => HasFix(IssueOf(log[p]))
    /\ \A k \in 1..Len(appliedFixes) : HasFix(sortedIssues[appliedFixes[k].idx])
    /\ pc \in {"loop", "notify", "settle", "reanalyze"} =>
         Len(sortedIssues) = Cardinality({ i \in 1..Len(rawIssues) : HasFix(rawIssues[i]) })

C3_Witness ==
  /\ LoopFinished
  /\ \E i \in 1..Len(rawIssues) : ~HasFix(rawIssues[i])
  /\ \E k \in 1..Len(appliedFixes) : ~HasEdits(sortedIssues[appliedFixes[k].idx])

\* C4: when the loop has finished, every planned Issue is in exactly one of the
\* applied and the failed list, each list is in application order, and a failed
\* step does not keep a later Issue from being attempted.
TimesIn(list, k) == Cardinality({ i \in 1..Len(list) : list[i].idx = k })
InOrder(list) == \A i, j \in 1..Len(list) : i < j => list[i].idx < list[j].idx

C4_EveryIssueAccounted ==
  (tool = "apply_all" /\ pc \in {"notify", "settle", "reanalyze", "done"}
     /\ result.kind \in {"none", "QuickFixesApplied"})
  => /\ \A k \in 1..Len(sortedIssues) :
          TimesIn(appliedFixes, k) + TimesIn(failedFixes, k) = 1
     /\ Len(appliedFixes) + Len(failedFixes) = Len(sortedIssues)
     /\ InOrder(appliedFixes) /\ InOrder(failedFixes)
     /\ Len(SelectSeq(log, LAMBDA e : e.ev = "attempt")) = Len(sortedIssues)

C4_Witness ==
  /\ LoopFinished
  /\ \E i \in 1..Len(failedFixes), j \in 1..Len(appliedFixes) :
       failedFixes[i].idx < appliedFixes[j].idx
  /\ \E i \in 1..Len(failedFixes), j \in 1..Len(appliedFixes) :
       failedFixes[i].idx > appliedFixes[j].idx

\* C5: a step that throws leaves the file as it was before the step, whatever the
\* Fix had already done to the buffer; the final file is what the successful
\* Issues' Fixes alone produce, applied in plan order to the starting content.
IsApplied(k) == \E i \in 1..Len(appliedFixes) : appliedFixes[i].idx = k

RECURSIVE ReplayApplied(_, _)
ReplayApplied(content, k) ==
  IF k > Len(sortedIssues) THEN content
  ELSE IF IsApplied(k)
  THEN ReplayApplied(ApplyFix(content, Head(sortedIssues[k].quickFixes)).content, k + 1)
  ELSE ReplayApplied(content, k + 1)

NoFixable == \A i \in 1..Len(rawIssues) : Len(rawIssues[i].quickFixes) = 0
Count(kinds) == Len(SelectSeq(log, LAMBDA e : e.ev \in kinds))

C6_NoFixesNoEffect ==
  tool = "apply_all" =>
    /\ (NoFixable /\ pc \notin {"idle", "bridge", "scope", "analyze"}
          /\ result.kind \notin {"FileNotFound", "BackendNotFound", "BackendStartFailed",
                                  "AnalysisFailed"})
         => /\ pc = "done"
            /\ result = Res("NoQuickFixes", FALSE, "")
            /\ appliedFixes = <<>> /\ failedFixes = <<>>
            /\ disk = snapshot
            /\ Count({"attempt", "write", "failed", "didOpenFile", "didUpdateFileSystem"}) = 0
            /\ Count({"analyze"}) = 1
    /\ (pc = "done" /\ lastCall.kind = "NoQuickFixes" /\ lastCall.content = snapshot
          /\ ~result.isError)
         => /\ result = Res("NoQuickFixes", FALSE, "")
            /\ Len(rawIssues) = lastCall.total
            /\ disk = snapshot
            /\ Count({"write"}) = 0

C6_Witness ==
  /\ tool = "apply_all" /\ pc = "done"
  /\ result.kind = "NoQuickFixes"
  /\ Len(rawIssues) = 2
  /\ lastCall.kind = "NoQuickFixes" /\ lastCall.content = snapshot

\* C9: for an Issue with several Fixes both tools apply the edits of the first Fix
\* only, and report the description of the first Fix.
C9_FirstFixOnly ==
  /\ \A p \in 2..Len(log) :
       log[p].ev = "write" =>
         /\ log[p - 1].ev = "attempt"
         /\ log[p].content =
              ApplyFix(log[p - 1].content, Head(IssueOf(log[p]).quickFixes)).content
  /\ tool = "apply_all" =>
       \A k \in 1..Len(appliedFixes) :
         appliedFixes[k].message =
           FixMessage(Head(sortedIssues[appliedFixes[k].idx].quickFixes))
  /\ (tool = "apply_one" /\ result.kind = "QuickFixApplied") =>
       result.message = FixMessage(Head(rawIssues[appliedFixes[1].idx].quickFixes))

C9_Witness ==
  /\ tool = "apply_one" /\ pc = "done"
  /\ result.kind = "QuickFixApplied"
  /\ Len(rawIssues[appliedFixes[1].idx].quickFixes) = 2
  /\ disk # snapshot

\* C10: apply_quick_fix fails with 'Issue not found' when no Issue of the fresh
\* analysis has the given start line and rule, and with 'No quick fix available'
\* when the Issue found there has no Fix; in both cases the file is not written
\* and nothing is notified.
Matches == { i \in 1..Len(rawIssues) :
               IssueLine(rawIssues[i]) = argLine /\ rawIssues[i].ruleKey = argRule }
FirstMatch == CHOOSE i \in Matches : \A j \in Matches : i <= j

C10_LookupFailures ==
  (tool = "apply_one" /\ pc \in {"notify", "settle", "done"}
     /\ result.kind \notin {"FileNotFound", "BackendNotFound", "BackendStartFailed",
                             "AnalysisFailed"})
  => /\ Matches = {} => result = Res("IssueNotFound", TRUE, "")
     /\ (Matches # {} /\ ~HasFix(rawIssues[FirstMatch]))
          => result = Res("NoQuickFixAvailable", TRUE, "")
     /\ result.kind = "IssueNotFound" => Matches = {}
     /\ result.kind \in {"IssueNotFound", "NoQuickFixAvailable"}
          => /\ pc = "done"
             /\ disk = snapshot
             /\ Count({"attempt", "write", "didOpenFile", "didUpdateFileSystem"}) = 0

C10_Witness ==
  /\ tool = "apply_one" /\ pc = "done"
  /\ result.kind = "NoQuickFixAvailable"
  /\ \E i \in 1..Len(rawIssues) : HasFix(rawIssues[i])


(***************************************************************************)
(* Error handling and the order of the phases.                             *)
(***************************************************************************)
ApplyTools == {"apply_one", "apply_all"}
Has(kinds) == \E p \in 1..Len(log) : log[p].ev \in kinds
Position(kind) == CHOOSE p \in 1..Len(log) : log[p].ev = kind

\* The running call was given a path that does not exist.
MissingPath ==
  /\ pc # "idle"
  /\ ~fileExists
  /\ \/ tool \in ApplyTools \cup {"analyze_file"}
     \/ tool = "analyze_files" /\ \E k \in 1..Len(argFiles) : argFiles[k] = TargetPath

\* C11: a call of apply_quick_fix, apply_all_quick_fixes, analyze_file or
\* analyze_files with a path that does not exist ends at once with the
\* non-recoverable "File not found" SloopError: the call has not asked for the
\* bridge, has not resolved or registered a scope and has sent no analyze request.
C11_MissingFileFailsFirst ==
  MissingPath =>
    /\ pc = "done"
    /\ result.kind = "FileNotFound"
    /\ result.isError
    /\ result.thrown.sloopError /\ ~result.thrown.recoverable
    /\ ~Has({"ensureSloopBridge", "getOrCreateScope", "analyze"})
    /\ filesByScope = <<>>

\* A batch call that names the missing file after two files that exist, rejected
\* while no scope has been created yet.
C11_Witness ==
  /\ MissingPath
  /\ tool = "analyze_files"
  /\ Len(argFiles) = 3
  /\ scopeMap = <<>>
  /\ pc = "done"

\* The failures the propagation policy lets through.
AbortKinds ==
  {"FileNotFound", "IssueNotFound", "NoQuickFixAvailable",
   "BackendNotFound", "BackendStartFailed", "AnalysisFailed"}

\* C12: an apply_quick_fix or apply_all_quick_fixes call ends with an error only
\* for FileNotFound, IssueNotFound, NoQuickFixAvailable or an unavailable backend;
\* a read or write error on the target file or an edit that addresses a line the
\* file does not have never ends the call with an error.
C12_OnlyListedFailuresAbort ==
  (tool \in ApplyTools /\ pc = "done" /\ result.isError) => result.kind \in AbortKinds

\* C13: once notifyFileSystemChanged has been called, whatever happened inside it,
\* the caller goes on to the settle wait: the call is never ended by the notifier,
\* and a call that has ended after a notification has waited out the settle interval.
C13_NotifierNeverFails ==
  Has({"notifyFileSystemChanged"}) =>
    /\ pc \in {"settle", "reanalyze", "done"}
    /\ pc # "settle" => Has({"settled"}) /\ Position("notifyFileSystemChanged") < Position("settled")
    /\ (pc = "done" /\ tool = "apply_one") => result.kind = "QuickFixApplied"
    /\ (pc = "done" /\ tool = "apply_all") => result.kind \in {"QuickFixesApplied", "AnalysisFailed"}

\* An apply_all call that has produced its report although sending the notification
\* threw.
C13_Witness ==
  /\ tool = "apply_all" /\ pc = "done" /\ result.kind = "QuickFixesApplied"
  /\ \E p \in 1..Len(log) :
       log[p].ev = "notifyFileSystemChanged" /\ log[p].content # <<"ok">>


Positions(kinds) == { p \in 1..Len(log) : log[p].ev \in kinds }
StepEvents == {"attempt", "write", "failed"}
NotifyEvents == {"notifyFileSystemChanged", "didOpenFile", "didUpdateFileSystem"}

\* C14: an apply_all_quick_fixes call with a non-empty plan goes through first
\* analysis, planning, apply loop, notification, settle wait, second analysis and
\* report in this order: every step of the loop follows the first analyze request
\* and the planning; the notifier runs once, after every planned Issue has been
\* attempted; the second analyze request follows the notifier and the end of the
\* settle wait; the report follows the second analysis.
C14_PhasesInOrder ==
  tool = "apply_all" =>
    /\ \A p \in Positions(StepEvents) :
         /\ sortedIssues # <<>>
         /\ \E a \in Positions({"analyze"}) : a < p
    /\ Cardinality(Positions({"notifyFileSystemChanged"})) <= 1
    /\ Cardinality(Positions({"didOpenFile"})) <= 1
    /\ Cardinality(Positions({"didUpdateFileSystem"})) <= 1
    /\ \A n \in Positions(NotifyEvents) :
         /\ Cardinality(Positions({"attempt"})) = Len(sortedIssues)
         /\ \A p \in Positions(StepEvents) : p < n
         /\ Position("notifyFileSystemChanged") <= n
    /\ Cardinality(Positions({"analyze"})) <= 2
    /\ \A a \in Positions({"analyze"}) :
         (\E b \in Positions({"analyze"}) : b < a)
           => /\ \A n \in Positions(NotifyEvents) : n < a
              /\ \E n \in Positions({"notifyFileSystemChanged"}) :
                   \E w \in Positions({"settled"}) : n < w /\ w < a
              /\ \A w \in Positions({"settled"}) : \A n \in Positions(NotifyEvents) : n < w
    /\ (pc = "done" /\ result.kind = "QuickFixesApplied")
         => /\ Cardinality(Positions({"analyze"})) = 2
            /\ log[Len(log)].ev = "analyze"
            /\ Cardinality(Positions({"notifyFileSystemChanged"})) = 1

\* A report after two written Issues, one failed Issue and both notifications.
C14_Witness ==
  /\ tool = "apply_all" /\ pc = "done" /\ result.kind = "QuickFixesApplied"
  /\ Cardinality(Positions({"write"})) = 2
  /\ Cardinality(Positions({"failed"})) = 1
  /\ Cardinality(Positions({"didUpdateFileSystem"})) = 1

\* C15: an apply_all_quick_fixes call that has entered its apply loop always comes to
\* an end, and unless the second analyze request is rejected the end is the report;
\* the report is a normal result (isError is not set) whatever number of Issues
\* failed and whatever the notifier did.
C15_ApplyAllReports ==
  /\ [](((tool = "apply_all" /\ pc = "done" /\ result.kind = "QuickFixesApplied"))
          => (~result.isError /\ Len(result.report) > 0))
  /\ [](((tool = "apply_all" /\ pc = "done" /\ Has({"attempt"}))
          => result.kind \in {"QuickFixesApplied", "AnalysisFailed"}))
  /\ ((tool = "apply_all" /\ pc = "loop")
        ~> (pc = "done" /\ result.kind \in {"QuickFixesApplied", "AnalysisFailed"}))

\* A report of a call in which every Issue failed and the notification was not sent.
C15_Witness ==
  /\ tool = "apply_all" /\ pc = "done" /\ result.kind = "QuickFixesApplied"
  /\ Len(appliedFixes) = 0 /\ Len(failedFixes) > 1
  /\ \E p \in 1..Len(log) :
       log[p].ev = "notifyFileSystemChanged" /\ log[p].content # <<"ok">>

LastWrite == CHOOSE p \in Positions({"write"}) : \A q \in Positions({"write"}) : q <= p

\* C16: during and at the end of an apply operation, however it ends, the file holds
\* what the last successful Issue step wrote (and what it held when the call began
\* while no step has succeeded): nothing restores earlier content.
C16_NoRollback ==
  tool \in ApplyTools =>
    IF Positions({"write"}) = {} THEN disk = snapshot ELSE disk = log[LastWrite].content

\* An apply_all call ended by a rejected second analysis, after an Issue was written
\* and a later Issue failed.
C16_Witness ==
  /\ tool = "apply_all" /\ pc = "done" /\ result.kind = "AnalysisFailed"
  /\ disk # snapshot
  /\ \E p \in Positions({"failed"}) : LastWrite < p


\* C17: when the backend cannot be started, the call ends with a SloopError that is
\* marked non-recoverable and whose userMessage gives reinstall or restart guidance.
C17_BackendFailureNonRecoverable ==
  (pc = "done" /\ result.kind \in {"BackendNotFound", "BackendStartFailed"})
    => /\ result.isError
       /\ result.thrown.sloopError
       /\ ~result.thrown.recoverable
       /\ result.thrown.userMessage \in {"try reinstalling", "check that Java is installed"}

\* C31: a call of a registered tool that has ended has a response, also when its
\* handler threw: a throw gives a response with isError set, whose text is the
\* userMessage of a SloopError and the message of any other error; a handler that
\* returned gives a response without isError.
C31_ThrowBecomesErrorResponse ==
  pc = "done" =>
    /\ result.kind # "none"
    /\ result.response.isError = result.isError
    /\ result.isError =>
         /\ result.thrown.sloopError
              => result.response.text = <<"Error: ", result.thrown.userMessage>>
         /\ ~result.thrown.sloopError
              => result.response.text = <<"Error: ", ErrorMessage(result.kind)>>
         /\ result.response.text[2] # ""

\* An apply_quick_fix call whose write failed: the error of the file system left the
\* handler and the response shows its message.
C31_Witness ==
  /\ tool = "apply_one" /\ pc = "done"
  /\ result.isError /\ ~result.thrown.sloopError
  /\ result.kind = "write failed"
  /\ result.response = [isError |-> TRUE, text |-> <<"Error: ", "write failed">>]

(***************************************************************************)
(* The scope map.                                                          *)
(***************************************************************************)
RegistrationsIn(registered, id) ==
  Cardinality({ k \in 1..Len(registered) : registered[k] = id })

\* The path a getOrCreateScope event of the log was called with.
EventPath(e) == IF e.idx = 0 THEN TargetPath ELSE argFiles[e.idx]

\* C18: every scope id that is stored in the scope map, and every id that
\* getOrCreateScope has returned to the running call, has been registered with the
\* backend exactly once.
C18_EveryScopeRegistered ==
  /\ \A e \in Entries(scopeMap) : RegistrationsIn(backendScopes, e[2]) = 1
  /\ \A p \in Positions({"getOrCreateScope"}) :
       RegistrationsIn(backendScopes, log[p].content) = 1

\* C19: the scope map holds one id per project root; no step removes or changes an
\* entry or registers the id of a mapped root again; and every id getOrCreateScope
\* returns for a path is the id the map holds for that path's directory.
C19_ScopeMapOnlyGrows ==
  /\ [](\A e \in Entries(scopeMap) : \A f \in Entries(scopeMap) : e[1] = f[1] => e = f)
  /\ [](\A p \in Positions({"getOrCreateScope"}) :
          <<Dirname(EventPath(log[p])), log[p].content>> \in Entries(scopeMap))
  /\ [][\A e \in Entries(scopeMap) :
          /\ e \in Entries(scopeMap')
          /\ RegistrationsIn(backendScopes', e[2]) = RegistrationsIn(backendScopes, e[2])]_vars

\* A batch call over both project roots in which the second file of one directory
\* was given the id created for the first.
C19_Witness ==
  /\ tool = "analyze_files" /\ pc = "done"
  /\ Len(scopeMap) = 2
  /\ \E p \in Positions({"getOrCreateScope"}) : \E q \in Positions({"getOrCreateScope"}) :
       p < q /\ log[p].content = log[q].content /\ EventPath(log[p]) # EventPath(log[q])

(***************************************************************************)
(* The report of apply_all_quick_fixes.                                    *)
(***************************************************************************)
Reported == tool = "apply_all" /\ pc = "done" /\ result.kind = "QuickFixesApplied"
ReportLines(tag) == { p \in 1..Len(result.report) : result.report[p].tag = tag }
Stated(tag, n) == \E p \in ReportLines(tag) : result.report[p].n = n

Severities == {"BLOCKER", "CRITICAL", "MAJOR", "MINOR", "INFO"}
SeverityRank(severity) ==
  CASE severity = "BLOCKER" -> 1 [] severity = "CRITICAL" -> 2 [] severity = "MAJOR" -> 3
    [] severity = "MINOR" -> 4 [] severity = "INFO" -> 5

\* The severity of a remaining Issue, MAJOR when the backend gave none.
SeverityOf(issue) == IF issue.severity = "" THEN "MAJOR" ELSE issue.severity
CountSeverity(severity) ==
  Cardinality({ i \in 1..Len(remainingIssues) : SeverityOf(remainingIssues[i]) = severity })

\* The remaining Issues are listed in one group per severity that occurs, the groups
\* in the order BLOCKER, CRITICAL, MAJOR, MINOR, INFO, each headed by its size.
GroupedBySeverity ==
  /\ \A severity \in Severities :
       /\ CountSeverity(severity) > 0
            <=> \E p \in ReportLines("group") : result.report[p].text = severity
       /\ Cardinality({ p \in ReportLines("issue") : result.report[p].text = severity })
            = CountSeverity(severity)
  /\ \A p \in ReportLines("group") :
       /\ result.report[p].n = CountSeverity(result.report[p].text)
       /\ \A q \in ReportLines("group") :
            p < q => SeverityRank(result.report[p].text) < SeverityRank(result.report[q].text)
  /\ \A p \in ReportLines("issue") :
       \E g \in ReportLines("group") :
         /\ g < p
         /\ result.report[g].text = result.report[p].text
         /\ \A h \in ReportLines("group") : h < p => h <= g

\* C20 as stated: the report states the applied count, the failed count and the
\* remaining count (the number of Issues of the second analysis), and lists the
\* remaining Issues grouped by severity in the fixed order, without empty groups.
C20_ReportStatesAllCounts ==
  Reported =>
    /\ Stated("Applied", Len(appliedFixes))
    /\ Stated("Failed", Len(failedFixes))
    /\ Stated("Remaining", Len(remainingIssues))
    /\ GroupedBySeverity

\* C20 as the code has it: the report states the applied count and the remaining
\* count (the number of Issues of the second analysis), states the failed count
\* when at least one Issue failed and has no failed line otherwise, and lists the
\* remaining Issues grouped by severity in the fixed order, without empty groups.
C20_ReportStatesCounts ==
  Reported =>
    /\ Stated("Applied", Len(appliedFixes))
    /\ IF Len(failedFixes) > 0 THEN Stated("Failed", Len(failedFixes))
       ELSE ReportLines("Failed") = {}
    /\ Stated("Remaining", Len(remainingIssues))
    /\ GroupedBySeverity

\* A report without failures that lists three groups, one of them holding an
\* Issue of the line and rule of an applied Fix.
C20_Witness ==
  /\ Reported
  /\ Len(failedFixes) = 0
  /\ Cardinality(ReportLines("group")) >= 3
  /\ \E k \in 1..Len(appliedFixes) : \E i \in 1..Len(remainingIssues) :
       /\ IssueLine(remainingIssues[i]) = appliedFixes[k].line
       /\ remainingIssues[i].ruleKey = appliedFixes[k].rule


(***************************************************************************)
(* SpecContent: analyze_content calls that may overlap.  fnIn is the       *)
(* working directory, a function from file names to what the file holds    *)
(* ("absent" for no file); calls holds the calls.                          *)
(***************************************************************************)
\* Date.now() at the calls: two calls may see the same millisecond.
Clock == {1, 2}

\* `.sonarlint-tmp-${Date.now()}${ext}` for language "typescript"
TempFileName(now) == ".sonarlint-tmp-" \o ToString(now) \o ".ts"

\* The fileName argument: "" when it is not given, the name of a file of the working
\* directory, or a name no file has.
FileNameArgs == {"", "index.ts", "new.ts"}
ContentArgs == {"", "var x;", "let y;"}

DirNames == (FileNameArgs \ {""}) \cup { TempFileName(now) : now \in Clock }
WorkingDirectory == [name \in DirNames |-> IF name = "index.ts" THEN "const z;" ELSE "absent"]

ContentInit ==
  /\ AtRest
  /\ fnPc = "content" /\ fnIn = WorkingDirectory /\ fnOut = <<>>

ContentFrame == UNCHANGED <<fnPc, fnOut, edVars, turns, envVars, callVars, lastCall, resVars>>

\* The finally block, lines 85-94: if (existsSync(tempFilePath)) unlinkSync(tempFilePath)
CleanUp(dir, tempFilePath) == [dir EXCEPT ![tempFilePath] = "absent"]

\* handleAnalyzeContent is called, lines 11-51: empty content is refused; otherwise
\* the content is written to the temp file and ensureSloopBridge() is awaited.
ContentInvoke ==
  /\ Len(calls) < MaxCalls
  /\ \E content \in ContentArgs, fileName \in FileNameArgs, now \in Clock :
       LET tempFileName == IF fileName # "" THEN fileName ELSE TempFileName(now)
       IN  IF content = ""
           THEN /\ calls' = Append(calls, [pc |-> "done", temp |-> "", result |-> "EmptyContent"])
                /\ UNCHANGED fnIn
           ELSE /\ calls' = Append(calls, [pc |-> "bridge", temp |-> tempFileName,
                                           result |-> "none"])
                /\ fnIn' = [fnIn EXCEPT ![tempFileName] = content]
  /\ ContentFrame

\* await ensureSloopBridge() settles, lines 51-57: the analyze request is sent, or the
\* error leaves through the finally block.
ContentBridge(c) ==
  /\ calls[c].pc = "bridge"
  /\ \/ /\ calls' = [calls EXCEPT ![c].pc = "analyze"]
        /\ UNCHANGED fnIn
     \/ /\ calls' = [calls EXCEPT ![c].pc = "done", ![c].result = "BackendStartFailed"]
        /\ fnIn' = CleanUp(fnIn, calls[c].temp)
  /\ ContentFrame

\* await bridge.analyzeFilesAndTrack settles, lines 57-94: the result is returned or
\* the rejection thrown, through the finally block either way.
ContentAnalyzed(c) ==
  /\ calls[c].pc = "analyze"
  /\ \E outcome \in {"Analyzed", "AnalysisFailed"} :
       calls' = [calls EXCEPT ![c].pc = "done", ![c].result = outcome]
  /\ fnIn' = CleanUp(fnIn, calls[c].temp)
  /\ ContentFrame

ContentNext ==
  \/ ContentInvoke
  \/ \E c \in 1..Len(calls) : ContentBridge(c)
  \/ \E c \in 1..Len(calls) : ContentAnalyzed(c)

SpecContent == ContentInit /\ [][ContentNext]_vars

(***************************************************************************)
(* SpecReport: the report of apply_all on its own.  fnIn is the answer of   *)
(* the second analysis, fnOut the summary built from it.                   *)
(***************************************************************************)
MaxRemaining == 3

\* The severity of a remaining Issue: one of the five levels, none, or a value the
\* loop over the levels does not name.
ReportedSeverities == {"BLOCKER", "MAJOR", "INFO", "", "major", "HIGH"}

RECURSIVE RemainingListsOf(_)
RemainingListsOf(n) ==
  IF n = 0 THEN { <<>> }
  ELSE { Append(l, SevIssue("S2", n, sev)) :
           l \in RemainingListsOf(n - 1), sev \in ReportedSeverities }
RemainingLists == UNION { RemainingListsOf(n) : n \in 0..MaxRemaining }

\* The one Fix the call has applied before the second analysis.
AppliedOne == <<[line |-> 1, rule |-> "S1", message |-> "first"]>>

ReportInit ==
  /\ AtRest
  /\ fnPc = "input" /\ fnIn \in RemainingLists /\ fnOut = <<>>

\* handleApplyAllQuickFixes, lines 133-182: the second analysis has returned.
ReportApply ==
  /\ fnPc = "input"
  /\ fnPc' = "applied"
  /\ fnOut' = Summary(AppliedOne, <<>>, fnIn)
  /\ FnFrame

ReportNext == ReportApply

SpecReport == ReportInit /\ [][ReportNext]_vars

(***************************************************************************)
(* SpecSession: the stores behind the MCP resources.  Each step is the     *)
(* last synchronous stretch of one tool call, from the settling of its     *)
(* last await to its return, so calls that overlap appear in the order in  *)
(* which they complete.  fnIn is the list of the completed calls.          *)
(***************************************************************************)
MaxSessionCalls == 3

\* Map.prototype.set on a Map kept as its entries in insertion order: the value of an
\* existing key is replaced in place, a new key is appended.
MapSetKeepingFirst(map, key, value) ==
  IF \E k \in 1..Len(map) : map[k][1] = key THEN map ELSE Append(map, <<key, value>>)
MapSet(map, key, value) ==
  IF \E k \in 1..Len(map) : map[k][1] = key
  THEN [k \in 1..Len(map) |-> IF map[k][1] = key THEN <<key, value>> ELSE map[k]]
  ELSE Append(map, <<key, value>>)
MapHas(map, key) == \E k \in 1..Len(map) : map[k][1] = key
MapGet(map, key) == map[CHOOSE k \in 1..Len(map) : map[k][1] = key][2]

\* `batch-${Date.now()}`
BatchId(now) == "batch-" \o ToString(now)

\* What the backend may have answered to a call: nothing, or Issues of which one has
\* a Fix.  The answer is that of the content the backend saw, which need not be the
\* content of the file when the call completes.
FixableIssue == Issue("S1", 1, <<FixA>>) @@ ("fileUri" :> FileUri(TargetPath))
SessionAnswers ==
  { <<>>, <<FixableIssue>>, <<FixableIssue, FoundIn(TargetPath, "S2", 2, "MINOR")>> }
SessionPaths == {TargetPath, SiblingPath}
SessionFileLists == { <<TargetPath>>, <<TargetPath, SiblingPath>> }

SessionInit ==
  /\ edPc = "unused" /\ edLines = <<>> /\ edEdit = Edit(NULL, NULL, NULL, NULL, <<>>)
  /\ edOut = [ok |-> FALSE, lines |-> <<>>]
  /\ fileExists = TRUE /\ disk = File /\ sloopBridge = "connected" /\ scopeMap = <<>>
  /\ backendScopes = <<>> /\ backendIssues = <<>> /\ backendContent = <<>>
  /\ pc = "idle" /\ tool = "none" /\ argLine = 0 /\ argRule = "none"
  /\ rawIssues = <<>> /\ sortedIssues = <<>> /\ idx = 0
  /\ appliedFixes = <<>> /\ failedFixes = <<>> /\ remainingIssues = <<>>
  /\ result = NoResult
  /\ snapshot = <<>> /\ log = <<>>
  /\ argFiles = <<>> /\ filesByScope = <<>>
  /\ lastCall = [tool |-> "none", kind |-> "none", total |-> 0, content |-> <<>>]
  /\ sessionResults = <<>> /\ batchResults = <<>>
  /\ calls = <<>> /\ turns = <<>>
  /\ fnPc = "session" /\ fnIn = <<>> /\ fnOut = <<>>

SessionFrame ==
  UNCHANGED <<fnPc, fnOut, edVars, parVars, callVars, lastCall, fileExists, sloopBridge,
              scopeMap, backendScopes, backendIssues, backendContent>>

\* handleAnalyzeFile, lines 57-96: the analysis has returned; the result is built,
\* stored under its filePath and returned.
SessionAnalyzeFile ==
  /\ Len(fnIn) < MaxSessionCalls
  /\ \E filePath \in SessionPaths, raw \in SessionAnswers, minSeverity \in {"", "MAJOR"} :
       LET r == AnalyzeFileResult(raw, minSeverity, <<>>)
           analysisResult == [filePath |-> filePath, language |-> DetectedLanguage(filePath),
                      issues |-> r.issues, summary |-> r.summary]
       IN  /\ sessionResults' = MapSet(sessionResults, filePath, analysisResult)
           /\ fnIn' = Append(fnIn, [tool |-> "analyze_file", filePath |-> filePath,
                                    returned |-> TRUE, result |-> analysisResult])
  /\ UNCHANGED <<disk, batchResults>>
  /\ SessionFrame

\* handleAnalyzeFile, lines 12-56: the call throws before it has a result.
SessionAnalyzeFileThrows ==
  /\ Len(fnIn) < MaxSessionCalls
  /\ \E filePath \in SessionPaths :
       fnIn' = Append(fnIn, [tool |-> "analyze_file", filePath |-> filePath,
                             returned |-> FALSE])
  /\ UNCHANGED <<disk, resVars>>
  /\ SessionFrame

\* handleApplyQuickFix, lines 63-160, and handleApplyAllQuickFixes, lines 63-192: the
\* Fix of an Issue of the target file is written to the file and the report returned.
SessionApply ==
  /\ Len(fnIn) < MaxSessionCalls
  /\ \E name \in {"apply_quick_fix", "apply_all_quick_fixes"}, raw \in SessionAnswers :
       LET plan == SortIssues(FilterIssues(raw))
       IN  /\ Len(plan) > 0
           /\ disk' = IssueStep(disk, plan[1], "ok").content
           /\ fnIn' = Append(fnIn, [tool |-> name, filePath |-> TargetPath,
                                    returned |-> TRUE])
  /\ UNCHANGED resVars
  /\ SessionFrame

\* handleAnalyzeFiles, lines 106-138: the batch result is built, stored under
\* `batch-${Date.now()}` and returned.
SessionAnalyzeFiles ==
  /\ Len(fnIn) < MaxSessionCalls
  /\ \E files \in SessionFileLists, raw \in SessionAnswers, now \in Clock :
       LET allResults == ScopeResults(files, raw, "", <<>>)
           batchResult == [files |-> allResults,
                           summary |-> [totalFiles |-> Len(allResults)]]
           batchId == BatchId(now)
       IN  /\ batchResults' = MapSet(batchResults, batchId, batchResult)
           /\ fnIn' = Append(fnIn, [tool |-> "analyze_files", filePath |-> files[1],
                                    returned |-> TRUE, batchId |-> batchId])
  /\ UNCHANGED <<disk, sessionResults>>
  /\ SessionFrame

\* handleAnalyzeContent, lines 57-94: the result is returned; neither store is touched.
SessionAnalyzeContent ==
  /\ Len(fnIn) < MaxSessionCalls
  /\ fnIn' = Append(fnIn, [tool |-> "analyze_content", filePath |-> TargetPath,
                           returned |-> TRUE])
  /\ UNCHANGED <<disk, resVars>>
  /\ SessionFrame

SessionNext ==
  \/ SessionAnalyzeFile
  \/ SessionAnalyzeFileThrows
  \/ SessionApply
  \/ SessionAnalyzeFiles
  \/ SessionAnalyzeContent

SpecSession == SessionInit /\ [][SessionNext]_vars

(***************************************************************************)
(* Properties of overlapping calls (SpecPar).                              *)
(***************************************************************************)
CallIds == 1..Len(calls)
PastLoop(c) == calls[c].pc \in {"notify", "settle", "reanalyze"}
AllOk(n) == [k \in 1..n |-> "ok"]

\* What a handler is about to apply when its first analysis returns: the plan of
\* apply_all, the Issue apply_quick_fix finds when it has a Fix.
PlanFor(call) ==
  IF call.tool = "apply_all" THEN SortIssues(FilterIssues(call.issues))
  ELSE LET t == FindIssue(call.issues, call.line, call.rule)
       IN  IF t = 0 \/ Len(call.issues[t].quickFixes) = 0 THEN <<>> ELSE <<call.issues[t]>>

\* The file after a call has run alone on the original file, every step succeeding.
Alone(call) == RunSteps(0, File, call.plan, 1, Len(call.plan), AllOk(Len(call.plan))).content

\* The file after call a has run to its end and call b after it: once the file has
\* changed the backend reports nothing that has a Fix, so b changes nothing.
OneAfterTheOther(a, b) == IF Alone(a) # File THEN Alone(a) ELSE Alone(b)

\* C21: two apply calls on one file may overlap unguarded.  When the answer to its
\* first analysis reaches a handler, the handler applies the edits of that answer to
\* the file as it is then, whatever content the answer was computed for: an
\* apply_all call with a non-empty plan runs its loop on the current content and
\* goes on to the notifier, an apply_quick_fix call applies the found Issue's Fix
\* to the current content, and nothing makes either wait for or yield to the other.
C21_StaleEditsAreApplied ==
  [][\A c \in CallIds :
       (/\ calls[c].pc = "analyze" /\ calls[c].answered
        /\ calls'[c] # calls[c]
        /\ calls'[c].result # "AnalysisFailed")
       => LET plan == PlanFor(calls[c])
              n    == Len(plan)
          IN  IF n = 0
              THEN disk' = disk /\ calls'[c].pc = "done"
              ELSE /\ calls[c].tool = "apply_all" => calls'[c].pc = "notify"
                   /\ calls'[c].pc = "notify" => calls'[c].plan = plan
                   /\ \E ios \in [1..n -> {"ok", "writeError"}] :
                        disk' = RunSteps(c, disk, plan, 1, n, ios).content]_vars

\* Both calls received an answer computed for the original file, both applied every
\* planned Fix, the later one to content the earlier one had already changed, and
\* the file is not what the two calls leave when run one after the other in either
\* order.
C21_Witness ==
  /\ Len(calls) = 2
  /\ \A c \in CallIds :
       /\ PastLoop(c)
       /\ calls[c].analysed = File
       /\ calls[c].applied # <<>> /\ calls[c].failed = <<>>
  /\ \E q \in 1..Len(turns) :
       turns[q].ev = "read" /\ turns[q].content # calls[turns[q].call].analysed
  /\ disk # OneAfterTheOther(calls[1], calls[2])
  /\ disk # OneAfterTheOther(calls[2], calls[1])

\* The positions of turns at which call c did something of the given kinds.
TurnsOf(c, kinds) == { q \in 1..Len(turns) : turns[q].call = c /\ turns[q].ev \in kinds }
Latest(positions) == CHOOSE q \in positions : \A r \in positions : r <= q

\* C28: in the apply loop of a call every step reads what the most recent successful
\* earlier step of that call wrote, or what the file held when the loop began if no
\* earlier step of the call has written; and the steps follow one another: a write is
\* the direct successor of the read of its step.
C28_StepReadsLatestWrite ==
  \A c \in CallIds : calls[c].tool = "apply_all" =>
    /\ \A q \in TurnsOf(c, {"read"}) :
         LET before == { w \in TurnsOf(c, {"write", "analyzed"}) : w < q }
         IN  before # {} /\ turns[q].content = turns[Latest(before)].content
    /\ \A w \in TurnsOf(c, {"write"}) :
         w > 1 /\ turns[w - 1].call = c /\ turns[w - 1].ev = "read"

\* The second of two overlapping apply_all calls has made two steps on a file the
\* first had changed: its first step read the changed file, its second step read what
\* its first step wrote.
C28_Witness ==
  /\ Len(calls) = 2 /\ calls[2].tool = "apply_all"
  /\ TurnsOf(1, {"write"}) # {}
  /\ \E q \in TurnsOf(2, {"read"}) : \E r \in TurnsOf(2, {"read"}) :
       /\ q < r
       /\ turns[q].content # calls[2].analysed
       /\ turns[r].content # turns[q].content
       /\ \E w \in TurnsOf(2, {"write"}) : q < w /\ w < r /\ turns[r].content = turns[w].content

\* The places at which a handler waits: for the bridge, for an analysis, for the
\* notifier, for the timer.
AwaitPoints == {"bridge", "analyze", "notify", "settle", "reanalyze"}

\* C29: a call that has not returned is at one of its awaits and never inside its
\* loop when another step runs; from the return of a call's first analysis to the
\* last read or write of the call, no other call reads or writes the file.
C29_LoopRunsUnsuspended ==
  /\ \A c \in CallIds : calls[c].pc \in AwaitPoints \cup {"done"}
  /\ \A c \in CallIds :
       \A a \in TurnsOf(c, {"analyzed"}) :
         \A z \in TurnsOf(c, {"read", "write"}) :
           \A q \in a..z : turns[q].call = c

\* Two calls were waiting for their first analysis at the same time, both with an
\* answer computed for the original file; the loop of the second ran first, the loop
\* of the first after it, each writing the file, and both now wait past their loops.
C29_Witness ==
  /\ Len(calls) = 2
  /\ \A c \in CallIds :
       /\ calls[c].tool = "apply_all" /\ PastLoop(c) /\ calls[c].analysed = File
       /\ Len(calls[c].plan) = 2
       /\ TurnsOf(c, {"write"}) # {}
  /\ Latest(TurnsOf(2, {"write"})) < Latest(TurnsOf(1, {"analyzed"}))


(***************************************************************************)
(* Properties of the scope map over several project roots (SpecScope).     *)
(***************************************************************************)
\* C30: for every path whose directory has an entry in the scope map, the notifier's
\* reverse lookup of the id getOrCreateScope returns for the path yields the path's
\* own directory; the relative path of every filesystem-changed notification is the
\* file's name under its own directory; and no two entries of the map for different
\* roots hold the same scope id.
C30_ReverseLookupFindsOwnRoot ==
  /\ \A path \in ScopePaths :
       (\E e \in Entries(scopeMap) : e[1] = Dirname(path))
         => ProjectRootOf(scopeMap,
                          GetOrCreateScopeFor(path, scopeMap, backendScopes, sloopBridge).id,
                          path) = Dirname(path)
  /\ \A k \in 1..Len(fnOut) :
       fnOut[k].ev = "didUpdateFileSystem"
         => fnOut[k].changedFiles[1].ideRelativePath = <<fnIn.name>>
  /\ \A e \in Entries(scopeMap) : \A f \in Entries(scopeMap) : e[2] = f[2] => e[1] = f[1]

(***************************************************************************)
(* Properties of overlapping ensureSloopBridge calls (SpecBridge).         *)
(***************************************************************************)
\* C32: however calls of ensureSloopBridge overlap, at most one bridge is ever
\* connected; every caller that got a bridge got the same one, the one that is
\* stored; and after a failed attempt no bridge of that attempt is stored, so that the
\* next call tries again.
C32_OneBridgePerProcess ==
  /\ Cardinality({ k \in 1..Len(fnOut) : fnOut[k].state = "connected" }) <= 1
  /\ \A c \in 1..Len(calls) : calls[c].pc = "returned" => calls[c].bridge = sloopBridge
  /\ \A k \in 1..Len(fnOut) : fnOut[k].state = "failed" => sloopBridge # fnOut[k].name
  /\ (\A k \in 1..Len(fnOut) : fnOut[k].state = "failed") => sloopBridge = "none"

(***************************************************************************)
(* Properties of analyze_content (SpecContent).                            *)
(***************************************************************************)
\* C35: when every analyze_content call has returned or failed, the working directory
\* holds what it held before the calls: no temp file is left, and no file that was
\* there has other content or is gone, whatever fileName the calls were given and
\* however they overlapped.
C35_WorkingDirectoryRestored ==
  (\A c \in 1..Len(calls) : calls[c].pc = "done") => fnIn = WorkingDirectory

(***************************************************************************)
(* Properties of the stores behind the resources (SpecSession).            *)
(***************************************************************************)
\* The completed calls of a tool, and the last analyze_file call that returned a
\* result for a path.
CompletedCalls(name) == { k \in 1..Len(fnIn) : fnIn[k].tool = name /\ fnIn[k].returned }
AnalyzedAt(filePath) ==
  { k \in CompletedCalls("analyze_file") : fnIn[k].filePath = filePath }
LastOf(ks) == CHOOSE k \in ks : \A j \in ks : j <= k

\* C36: sessionResults holds an entry for a path exactly when an analyze_file call
\* for that path has returned a result, and the entry is the result of the last such
\* call: no call of apply_quick_fix, apply_all_quick_fixes, analyze_files or
\* analyze_content that completed since has changed it.
C36_SessionHoldsLastAnalysis ==
  \A filePath \in SessionPaths :
    /\ MapHas(sessionResults, filePath) <=> AnalyzedAt(filePath) # {}
    /\ AnalyzedAt(filePath) # {} =>
         MapGet(sessionResults, filePath) = fnIn[LastOf(AnalyzedAt(filePath))].result

\* A file analysed twice with different results and then changed by an apply call:
\* the store still shows the Issue that the second analysis reported with its Fix.
C36_Witness ==
  /\ Len(fnIn) = 3
  /\ fnIn[1].tool = "analyze_file" /\ fnIn[1].returned /\ fnIn[1].filePath = TargetPath
  /\ fnIn[2].tool = "analyze_file" /\ fnIn[2].returned /\ fnIn[2].filePath = TargetPath
  /\ fnIn[1].result # fnIn[2].result
  /\ fnIn[3].tool = "apply_all_quick_fixes"
  /\ disk # File
  /\ MapHas(sessionResults, TargetPath)
  /\ Len(MapGet(sessionResults, TargetPath).issues) > 0
  /\ MapGet(sessionResults, TargetPath).issues[1].quickFix.description = "first"

\* C37: batchResults holds one entry for every analyze_files call that has completed.
C37_OneEntryPerBatch ==
  Len(batchResults) = Cardinality(CompletedCalls("analyze_files"))

(***************************************************************************)
(* Properties of the report of apply_all on its own (SpecReport).          *)
(***************************************************************************)
SummaryLines(tag) == { p \in 1..Len(fnOut) : fnOut[p].tag = tag }

\* C38: the number after "Remaining issues:" is the number of Issue lines under the
\* severity headings, and the numbers in the headings add up to it, whatever
\* severity the backend gave to the Issues of the second analysis.
C38_RemainingCountIsListed ==
  fnPc = "applied" =>
    \A p \in SummaryLines("Remaining") :
      fnOut[p].n = Cardinality(SummaryLines("issue"))

(***************************************************************************)
(* Properties of the functions on their own.                               *)
(***************************************************************************)
\* C33: for every Issue analyze_file reports with a quick fix, apply_quick_fix called
\* with the reported line and rule on the unchanged file finds an Issue, that one when
\* no other Issue has its line and rule, also when the backend gave the Issue no line;
\* and the line apply_all shows for the Issue is the line analyze_file reports.
C33_ReportedPositionIsFound ==
  fnPc = "applied" =>
    \A i \in 1..Len(fnIn) :
      "quickFix" \in DOMAIN fnOut.reported[i]
        => /\ fnOut.found[i] = i
           /\ fnOut.shown[i] = fnOut.reported[i].line

\* C34: a step whose Fix contributes no text edit is reported as applied and leaves
\* the file byte for byte as it was, whatever the file holds: CR LF line ends, no
\* final newline, nothing at all.
C34_EditlessStepKeepsBytes ==
  fnPc = "applied" => (fnOut.applied /\ fnOut.bytes = fnIn.bytes)

(***************************************************************************)
(* More properties of the functions on their own.                          *)
(***************************************************************************)
\* The first of the values that is present, d when none is.
FirstPresent(values, d) ==
  IF \E k \in 1..Len(values) : values[k] # NULL
  THEN values[CHOOSE k \in 1..Len(values) :
                values[k] # NULL /\ \A j \in 1..(k - 1) : values[j] = NULL]
  ELSE d

\* C22: transformSloopIssues gives one output Issue per raw Issue, in the same
\* order; each position field holds the backend's value when the backend gave one
\* (the textRange's before the flat field's), a missing line becomes 1, a missing
\* column 0 and a missing severity MAJOR.
C22_TransformKeepsBackendValues ==
  fnPc = "applied" =>
    /\ Len(fnOut) = Len(fnIn)
    /\ \A i \in 1..Len(fnIn) :
         LET raw == fnIn[i]
             out == fnOut[i]
         IN  /\ out.rule = StrOr(raw.ruleKey, "unknown")
             /\ out.line = FirstPresent(<<raw.textRangeStartLine, raw.startLine>>, 1)
             /\ out.column = FirstPresent(<<Num(raw, "textRangeStartLineOffset"),
                                            Num(raw, "startColumn")>>, 0)
             /\ out.severity = (IF raw.severity = "" THEN "MAJOR" ELSE raw.severity)
             /\ LET given == FirstPresent(<<Num(raw, "textRangeEndLine"),
                                            Num(raw, "endLine")>>, NULL)
                IN  given # NULL => out.endLine = given
             /\ LET given == FirstPresent(<<Num(raw, "textRangeEndLineOffset"),
                                            Num(raw, "endColumn")>>, NULL)
                IN  given # NULL => out.endColumn = given


\* The claim's order INFO < MINOR < MAJOR < CRITICAL < BLOCKER.
AtLeast(severity, m) == SeverityRank(severity) <= SeverityRank(m)

\* An analysed Issue that minSeverity and excludeRules let through.
Kept(issue) ==
  /\ fnIn.minSeverity # "" => AtLeast(issue.severity, fnIn.minSeverity)
  /\ \A k \in 1..Len(fnIn.excludeRules) : issue.rule # fnIn.excludeRules[k]

\* The analysed Issues of a file, in the backend's order.
Analysed(path) ==
  IF path = TargetPath THEN TransformSloopIssues(fnIn.raw)
  ELSE IF path = SiblingPath THEN TransformSloopIssues(SiblingIssues)
  ELSE TransformSloopIssues(OtherIssues)

CountOf(issues, severity) ==
  Cardinality({ i \in 1..Len(issues) : issues[i].severity = severity })

\* C23: analyze_file and analyze_files return, for each file, exactly the analysed
\* Issues whose severity is at least minSeverity and whose rule is not excluded, in
\* their original relative order; the totals and the per-severity counters count
\* exactly the returned Issues.
C23_FilteredIssuesAndTotals ==
  fnPc = "applied" =>
    /\ fnOut.file.issues = SelectSeq(Analysed(TargetPath), Kept)
    /\ fnOut.file.summary.total = Len(fnOut.file.issues)
    /\ \A sv \in Severities :
         fnOut.file.summary.bySeverity[ToLowerCase(sv)] = CountOf(fnOut.file.issues, sv)
    /\ Len(fnOut.batch.files) = 3
    /\ \A k \in 1..Len(fnOut.batch.files) :
         LET f == fnOut.batch.files[k]
         IN  /\ f.filePath = <<TargetPath, SiblingPath, OtherPath>>[k]
             /\ f.issues = SelectSeq(Analysed(f.filePath), Kept)
             /\ f.issueCount = Len(f.issues)
    /\ fnOut.batch.summary.totalIssues =
         Len(SelectSeq(Analysed(TargetPath), Kept))
           + Len(SelectSeq(Analysed(SiblingPath), Kept))
           + Len(SelectSeq(Analysed(OtherPath), Kept))
    /\ \A sv \in Severities :
         fnOut.batch.summary.bySeverity[ToLowerCase(sv)] =
           CountOf(SelectSeq(Analysed(TargetPath), Kept), sv)
             + CountOf(SelectSeq(Analysed(SiblingPath), Kept), sv)
             + CountOf(SelectSeq(Analysed(OtherPath), Kept), sv)

\* Both filters are given; of the target file's Issues one is dropped for its
\* severity and one for its rule, at least two are kept, one of them has its
\* severity, equal to minSeverity, by default; the scope's answer interleaves the
\* Issues of its two files.
C23_Witness ==
  /\ fnPc = "applied"
  /\ fnIn.minSeverity = "MAJOR" /\ fnIn.excludeRules = <<"S2", "unknown">>
  /\ Len(fnOut.file.issues) >= 2
  /\ \E i \in 1..Len(fnIn.raw) : fnIn.raw[i].severity = ""
  /\ \E i \in 1..Len(fnIn.raw) :
       fnIn.raw[i].severity = "BLOCKER" /\ fnIn.raw[i].ruleKey = "S2"
  /\ \E i \in 1..Len(fnIn.raw) : fnIn.raw[i].severity = "INFO"
  /\ fnIn.scopes[1].raw[1].fileUri = FileUri(SiblingPath)
  /\ fnOut.batch.summary.totalIssues > Len(fnOut.file.issues)
  /\ fnOut.batch.summary.totalIssues < Len(fnIn.raw) + 5


\* The edits of the Fix of SpecFix in the order the applier processes them.
FixEdits == EditSequence(FileEditsOf(fnIn.quickFix))

StartsNoLater(a, b) ==
  \/ a.startLine < b.startLine
  \/ a.startLine = b.startLine /\ a.startLineOffset <= b.startLineOffset

\* C24: the edits of one Fix are processed in descending order of start position
\* (line, then column); so when the edits lie inside the file and do not overlap,
\* the content after the Fix is the snapshot with all the edits made at once.
\* Stated, like C1, for edits whose end column is not 0.
C24_FixEditsDescending ==
  (/\ fnPc = "applied"
   /\ \A i \in 1..Len(FixEdits) :
        /\ WellFormed(Split(fnIn.content), FixEdits[i])
        /\ FixEdits[i].endLineOffset # 0
   /\ NonOverlapping(Split(fnIn.content), FixEdits))
  => /\ \A i, j \in 1..Len(FixEdits) : i < j => StartsNoLater(FixEdits[j], FixEdits[i])
     /\ fnOut.ok
     /\ fnOut.content = Simultaneous(fnIn.content, FixEdits)

\* Place of a planned Issue in the analysis result.
PlaceOf(issue) == CHOOSE i \in 1..Len(fnIn) : fnIn[i] = issue
LinesOf(issues) == [k \in 1..Len(issues) |-> IssueLine(issues[k])]

\* C25: the plan holds the Issues that have a Fix, each once, in non-increasing order
\* of start line; Issues of equal line keep the order of the analysis result; an
\* Issue without a line counts as line 0 and comes after every Issue with a positive
\* line; the lists the planner was given are as they were; four Issues at lines
\* 5, 15, 10, 3 are planned in the order 15, 10, 5, 3.
C25_StableDescendingPlan ==
  fnPc = "applied" =>
    LET plan == fnOut.sortedIssues IN
    /\ Len(plan) = Cardinality({ i \in 1..Len(fnIn) : HasFix(fnIn[i]) })
    /\ \A i \in 1..Len(fnIn) : HasFix(fnIn[i]) => \E p \in 1..Len(plan) : plan[p] = fnIn[i]
    /\ \A p, q \in 1..Len(plan) :
         p < q => /\ IssueLine(plan[p]) >= IssueLine(plan[q])
                  /\ IssueLine(plan[p]) = IssueLine(plan[q])
                       => PlaceOf(plan[p]) < PlaceOf(plan[q])
    /\ \A p, q \in 1..Len(plan) :
         (plan[p].textRangeStartLine = NULL /\ plan[p].startLine = NULL
            /\ IssueLine(plan[q]) > 0) => q < p
    /\ fnOut.rawIssues = fnIn
    /\ fnOut.issuesWithQuickFixes = SelectSeq(fnIn, HasFix)
    /\ LinesOf(fnIn) = <<5, 15, 10, 3>> /\ Len(plan) = 4 => LinesOf(plan) = <<15, 10, 5, 3>>

\* Four planned Issues: the first of the analysis result has no line, two others
\* share a line, one of them by its flat startLine.
C25_Witness ==
  /\ fnPc = "applied"
  /\ Len(fnOut.sortedIssues) = 4
  /\ fnIn[1].textRangeStartLine = NULL /\ fnIn[1].startLine = NULL
  /\ fnOut.sortedIssues[4] = fnIn[1]
  /\ \E i, j \in 2..4 :
       /\ i < j /\ fnIn[i].startLine = 5 /\ fnIn[j].textRangeStartLine = 5
       /\ PlaceOf(fnOut.sortedIssues[2]) = i /\ PlaceOf(fnOut.sortedIssues[3]) = j

=============================================================================
